---- MODULE Spec2Model ----
(***************************************************************************)
(* Playbook lifecycle governance core of the SOAR playbook generator:      *)
(*   - ApprovalGateEngine  (src/src/core/ApprovalGateEngine.js)            *)
(*   - VersionControlEngine (src/src/core/VersionControlEngine.js)         *)
(* Time is counted in hours for the approval engine (the configuration     *)
(* states its durations in hours) and in clock ticks for version control.  *)
(***************************************************************************)
EXTENDS Integers, Sequences, FiniteSets, TLC

VARIABLES
    clock,            \* index into Instants of the current reading of new Date()
    approvalStore,    \* ApprovalGateEngine.approvalStore : approval_id -> request
    approvalHistory,  \* ApprovalGateEngine.approvalHistory
    nextApprovalId,   \* the next fresh uuidv4() of the approval engine
    input,            \* the playbook and local hour a caller is about to submit
    lastCall,         \* the last approval-engine call and what it returned
    versions,         \* VersionControlEngine.versions : version_id -> version
    versionOrder,     \* the insertion order of the versions Map
    branches,         \* VersionControlEngine.branches : "playbook:branch" -> version_id
    tags,             \* VersionControlEngine.tags : "playbook:tag" -> tag
    auditTrail,       \* VersionControlEngine.auditTrail
    disk,             \* the version files under storagePath : version_id -> version
    nextVersionId,    \* the next fresh uuidv4() of the version engine
    vcLast,           \* the last version-control call and what it returned
    pending,          \* the calls in flight : caller -> the suspended async function
    microtasks        \* the callers whose continuation is queued, first in first out

approvalVars == <<approvalStore, approvalHistory, nextApprovalId, input, lastCall>>

vcVars == <<versions, versionOrder, branches, tags, auditTrail, disk, nextVersionId, vcLast,
            pending, microtasks>>

inFlightVars == <<pending, microtasks>>

vars == <<clock, approvalStore, approvalHistory, nextApprovalId, input, lastCall,
          versions, versionOrder, branches, tags, auditTrail, disk, nextVersionId,
          vcLast, pending, microtasks>>

----------------------------------------------------------------------------
(* Bounds of the model *)

MaxRequests == 1

(* JavaScript null / undefined, and a timestamp field that is not set *)
Null == "null"
Undefined == "undefined"
NoTime == 0 - 1
NoId == 0 - 1

----------------------------------------------------------------------------
(* getDefaultApprovalConfig *)

high_risk_score == 80
certain_techniques == {"T1098", "T1110", "T1110.003"}
certain_actions == {"isolate_host", "block_source_ip", "disable_account"}
start_hour == 9
end_hour == 17
escalate_after == 4
max_approval_time == 48

ConfigApprovers ==
    [level_1 |-> <<"security_analyst", "team_lead">>,
     level_2 |-> <<"security_manager", "incident_commander">>,
     level_3 |-> <<"ciso", "director_security">>]

Levels == <<"level_1", "level_2", "level_3">>

Range(s) == {s[i] : i \in DOMAIN s}

----------------------------------------------------------------------------
(* The pattern tests, tabulated on the sample user and host names.         *)

Usernames == {Undefined, "jdoe", "svc_admin", "domain_admin", "ciso"}
Hostnames == {Undefined, "ws-17", "hr-laptop", "dc01"}

\* /admin/i, /administrator/i, /root/i, /sa$/i, /service/i, ... on the samples
isPrivilegedAccount(username) == username \in {"svc_admin", "domain_admin"}

\* /domain.*admin/i, /enterprise.*admin/i, /ciso/i, /security.*admin/i
isHighlyPrivileged(username) == username \in {"domain_admin", "ciso"}

\* /dc\d*/i, ... , /hr/i, ...
isCriticalAsset(hostname) == hostname \in {"hr-laptop", "dc01"}

\* /dc\d*/i, /domain.*controller/i, /production.*db/i, /finance.*db/i
isHighlyCriticalAsset(hostname) == hostname \in {"dc01"}

hasHighRiskTechniques(techniques) ==
    \E i \in DOMAIN techniques : techniques[i] \in {"T1098", "T1110"}

hasHighRiskActions(actions) ==
    \E i \in DOMAIN actions : actions[i] \in {"isolate_host", "disable_account"}

isBusinessHours(currentHour) ==
    currentHour >= start_hour /\ currentHour < end_hour

----------------------------------------------------------------------------
(* The seven gates.  A gate is [name, triggered, approval_level].          *)

Gate(name, triggered, level) ==
    [name |-> name, triggered |-> triggered, approval_level |-> level]

checkPrivilegedAccountGate(playbook) ==
    LET username == playbook.username IN
    IF username # Undefined /\ isPrivilegedAccount(username)
    THEN Gate("privileged_account", TRUE,
              IF isHighlyPrivileged(username) THEN "level_2" ELSE "level_1")
    ELSE Gate("privileged_account", FALSE, "level_1")

checkCriticalAssetGate(playbook) ==
    LET hostname == playbook.hostname IN
    IF hostname # Undefined /\ isCriticalAsset(hostname)
    THEN Gate("critical_asset", TRUE,
              IF isHighlyCriticalAsset(hostname) THEN "level_3" ELSE "level_2")
    ELSE Gate("critical_asset", FALSE, "level_2")

checkRiskScoreGate(playbook) ==
    LET riskScore == playbook.risk_score IN
    IF riskScore >= high_risk_score
    THEN Gate("risk_score", TRUE, IF riskScore >= 90 THEN "level_2" ELSE "level_1")
    ELSE Gate("risk_score", FALSE, "level_1")

checkTechniqueGate(playbook) ==
    LET matchingTechniques ==
            SelectSeq(playbook.mitre_techniques, LAMBDA t : t \in certain_techniques)
    IN  IF Len(matchingTechniques) > 0
        THEN Gate("technique", TRUE,
                  IF hasHighRiskTechniques(matchingTechniques) THEN "level_2" ELSE "level_1")
        ELSE Gate("technique", FALSE, "level_1")

checkActionGate(playbook) ==
    LET matchingActions ==
            SelectSeq(playbook.automated_actions, LAMBDA a : a \in certain_actions)
    IN  IF Len(matchingActions) > 0
        THEN Gate("action", TRUE,
                  IF hasHighRiskActions(matchingActions) THEN "level_2" ELSE "level_1")
        ELSE Gate("action", FALSE, "level_1")

checkBusinessHoursGate(currentHour) ==
    IF ~isBusinessHours(currentHour)
    THEN Gate("business_hours", TRUE, "level_1")
    ELSE Gate("business_hours", FALSE, "level_1")

\* risk_adjustments.find(adj => condition is high_critical_asset or server_host)
FindHighCriticality(adjustments) ==
    LET hits == SelectSeq(adjustments,
                    LAMBDA adj : adj.condition \in {"high_critical_asset", "server_host"})
    IN  IF Len(hits) > 0 THEN <<hits[1]>> ELSE <<>>

checkAssetCriticalityGate(playbook) ==
    LET found == IF playbook.asset_criticality_aware
                 THEN FindHighCriticality(playbook.risk_adjustments) ELSE <<>>
    IN  IF Len(found) > 0
        THEN Gate("asset_criticality", TRUE,
                  IF found[1].add_score >= 30 THEN "level_2" ELSE "level_1")
        ELSE Gate("asset_criticality", FALSE, "level_1")

\* the array `gates` of evaluateApprovalGates, in the order the code builds it
GatesOf(playbook, currentHour) ==
    <<checkPrivilegedAccountGate(playbook),
      checkCriticalAssetGate(playbook),
      checkRiskScoreGate(playbook),
      checkTechniqueGate(playbook),
      checkActionGate(playbook),
      checkBusinessHoursGate(currentHour),
      checkAssetCriticalityGate(playbook)>>

getApprovalLevelPriority_flat(level) ==
    CASE level = "level_1" -> 1
      [] level = "level_2" -> 2
      [] level = "level_3" -> 2
      [] OTHER -> 0

getApprovalLevelPriority(level) ==
    CASE level = "level_1" -> 1
      [] level = "level_2" -> 2
      [] level = "level_3" -> 3
      [] OTHER -> 0

EmptyDecision ==
    [requires_approval |-> FALSE, approval_level |-> Null, gates_triggered |-> <<>>,
     auto_approve |-> FALSE, approval_id |-> NoId, expires_at |-> NoTime]

\* one iteration of `for (const gate of gates)`
GateStep(decision, gate) ==
    IF gate.triggered
    THEN [decision EXCEPT
            !.requires_approval = TRUE,
            !.gates_triggered = Append(@, gate),
            !.approval_level =
                IF gate.approval_level # Null
                   /\ (decision.approval_level = Null
                       \/ getApprovalLevelPriority(gate.approval_level)
                            > getApprovalLevelPriority(decision.approval_level))
                THEN gate.approval_level ELSE @]
    ELSE decision

RECURSIVE EvaluateGates(_, _, _)
EvaluateGates(gates, i, decision) ==
    IF i > Len(gates) THEN decision
    ELSE EvaluateGates(gates, i + 1, GateStep(decision, gates[i]))

getApproversForLevel(level) ==
    IF level \in DOMAIN ConfigApprovers THEN ConfigApprovers[level] ELSE <<>>

calculateExpirationTime_escalate(t) == t + escalate_after

calculateExpirationTime(t) == t + max_approval_time

isValidApprover_anyone(approver, requiredLevel) == TRUE

isValidApprover(approver, requiredLevel) ==
    approver \in Range(getApproversForLevel(requiredLevel))

getNextApprovalLevel_wrap(currentLevel) ==
    IF currentLevel = "level_1" THEN "level_2"
    ELSE IF currentLevel = "level_2" THEN "level_3" ELSE "level_1"

getNextApprovalLevel_skip(currentLevel) ==
    IF currentLevel \in {"level_1", "level_2"} THEN "level_3" ELSE Null

getNextApprovalLevel(currentLevel) ==
    LET found == {i \in DOMAIN Levels : Levels[i] = currentLevel}
        currentIndex == IF found = {} THEN 0 ELSE CHOOSE i \in found : TRUE
    IN  IF currentIndex < Len(Levels) THEN Levels[currentIndex + 1] ELSE Null

shouldSendNotifications == TRUE   \* notifications.email_enabled || slack_enabled

----------------------------------------------------------------------------
(* Inputs *)

Hours == {8, 9, 16, 17}

Users == {"security_analyst", "security_manager", "ciso", "intern"}

Comments == {"looks fine"}
Reasons == {"false positive"}

Playbook(id, username, hostname, risk, techniques, actions, aware, adjustments) ==
    [playbook_id |-> id, username |-> username, hostname |-> hostname,
     risk_score |-> risk, mitre_techniques |-> techniques,
     automated_actions |-> actions, asset_criticality_aware |-> aware,
     risk_adjustments |-> adjustments]

Adjustment(condition, add_score) == [condition |-> condition, add_score |-> add_score]

\* every combination of the sample field values: the inputs of SpecGates
Playbooks ==
    {Playbook("pb-1", u, h, r, t, a, c[1], c[2]) :
        u \in Usernames, h \in Hostnames, r \in {79, 80, 89, 90},
        t \in {<<>>, <<"T1059">>, <<"T1110.003">>, <<"T1059", "T1098">>},
        a \in {<<>>, <<"notify">>, <<"block_source_ip">>,
               <<"block_source_ip", "isolate_host">>},
        c \in {<<FALSE, <<Adjustment("server_host", 20)>> >>,
               <<TRUE, <<>> >>,
               <<TRUE, <<Adjustment("off_hours", 40), Adjustment("server_host", 20)>> >>,
               <<TRUE, <<Adjustment("high_critical_asset", 30)>> >>}}

\* the submissions made while the request life cycle is explored:
\* no gate, business_hours alone (level_1), critical_asset with
\* business_hours (level_3)
QuietInput ==
    [playbook |-> Playbook("pb-1", "jdoe", "ws-17", 40, <<>>, <<>>, FALSE, <<>>),
     hour |-> 12]

LifecycleInputs ==
    {QuietInput,
     [playbook |-> Playbook("pb-1", "jdoe", "ws-17", 40, <<>>, <<>>, FALSE, <<>>),
      hour |-> 20],
     [playbook |-> Playbook("pb-2", "jdoe", "dc01", 40, <<>>, <<>>, FALSE, <<>>),
      hour |-> 20]}

\* the instants (in hours) at which calls reach the engine: a request made at
\* 0 is exactly escalate_after old at 4 and exactly max_approval_time old at 48
Instants == <<0, 4, 48, 52>>

now == Instants[clock]

----------------------------------------------------------------------------
(* ApprovalGateEngine: state and operations *)

\* what the caller of the last operation got back: the decision of
\* evaluateApprovalGates, the request id, and "ok" or the kind of the Error thrown
Call(op, id, result, decision) ==
    [op |-> op, approval_id |-> id, result |-> result, decision |-> decision]

SimpleCall(op, id, result) == Call(op, id, result, EmptyDecision)

\* the object literal of createApprovalRequest, after sendApprovalNotifications
createApprovalRequest(decision, playbook, t) ==
    [approval_id |-> decision.approval_id,
     playbook_id |-> playbook.playbook_id,
     approval_level |-> decision.approval_level,
     gates_triggered |-> decision.gates_triggered,
     status |-> "pending",
     created_at |-> t,
     expires_at |-> decision.expires_at,
     approvers |-> getApproversForLevel(decision.approval_level),
     notifications_sent |-> shouldSendNotifications,
     approved_by |-> Undefined, approved_at |-> NoTime, approval_comments |-> Undefined,
     rejected_by |-> Undefined, rejected_at |-> NoTime, rejection_reason |-> Undefined,
     expired_at |-> NoTime, escalated_at |-> NoTime]

StoreSet(store, id, request) ==
    [i \in DOMAIN store \cup {id} |-> IF i = id THEN request ELSE store[i]]

\* the decision evaluateApprovalGates returns for a playbook evaluated at time t
DecisionFor(playbook, currentHour, t, freshId) ==
    LET d == EvaluateGates(GatesOf(playbook, currentHour), 1, EmptyDecision)
    IN  IF d.requires_approval
        THEN [d EXCEPT !.approval_id = freshId,
                       !.expires_at = calculateExpirationTime(t)]
        ELSE [d EXCEPT !.auto_approve = TRUE]

evaluateApprovalGates(playbook, currentHour) ==
    LET decision == DecisionFor(playbook, currentHour, now, nextApprovalId) IN
    /\ decision.requires_approval => nextApprovalId <= MaxRequests
    /\ IF decision.requires_approval
       THEN /\ approvalStore' = StoreSet(approvalStore, decision.approval_id,
                                   createApprovalRequest(decision, playbook, now))
            /\ nextApprovalId' = nextApprovalId + 1
       ELSE UNCHANGED <<approvalStore, nextApprovalId>>
    /\ lastCall' = Call("evaluateApprovalGates", decision.approval_id, "ok", decision)
    /\ UNCHANGED <<clock, approvalHistory, input>>
    /\ UNCHANGED vcVars

IsPending_any(request) == TRUE

\* `request.status !== 'pending'` of approveRequest and rejectRequest
IsPending(request) == request.status = "pending"

approveRequest(approvalId, approver, comments) ==
    /\ UNCHANGED <<clock, nextApprovalId, input>>
    /\ UNCHANGED vcVars
    /\ IF approvalId \notin DOMAIN approvalStore
       THEN /\ lastCall' = SimpleCall("approveRequest", approvalId, "NotFound")
            /\ UNCHANGED <<approvalStore, approvalHistory>>
       ELSE LET request == approvalStore[approvalId] IN
            IF ~IsPending(request)
            THEN /\ lastCall' = SimpleCall("approveRequest", approvalId, "InvalidState")
                 /\ UNCHANGED <<approvalStore, approvalHistory>>
            ELSE IF ~isValidApprover(approver, request.approval_level)
            THEN /\ lastCall' = SimpleCall("approveRequest", approvalId, "Unauthorized")
                 /\ UNCHANGED <<approvalStore, approvalHistory>>
            ELSE /\ approvalStore' = StoreSet(approvalStore, approvalId,
                        [request EXCEPT !.status = "approved",
                                        !.approved_by = approver,
                                        !.approved_at = now,
                                        !.approval_comments = comments])
                 /\ approvalHistory' = Append(approvalHistory,
                        [action |-> "approve", approval_id |-> approvalId,
                         approver |-> approver, timestamp |-> now, text |-> comments])
                 /\ lastCall' = SimpleCall("approveRequest", approvalId, "ok")

rejectRequest(approvalId, approver, reason) ==
    /\ UNCHANGED <<clock, nextApprovalId, input>>
    /\ UNCHANGED vcVars
    /\ IF approvalId \notin DOMAIN approvalStore
       THEN /\ lastCall' = SimpleCall("rejectRequest", approvalId, "NotFound")
            /\ UNCHANGED <<approvalStore, approvalHistory>>
       ELSE LET request == approvalStore[approvalId] IN
            IF ~IsPending(request)
            THEN /\ lastCall' = SimpleCall("rejectRequest", approvalId, "InvalidState")
                 /\ UNCHANGED <<approvalStore, approvalHistory>>
            ELSE IF ~isValidApprover(approver, request.approval_level)
            THEN /\ lastCall' = SimpleCall("rejectRequest", approvalId, "Unauthorized")
                 /\ UNCHANGED <<approvalStore, approvalHistory>>
            ELSE /\ approvalStore' = StoreSet(approvalStore, approvalId,
                        [request EXCEPT !.status = "rejected",
                                        !.rejected_by = approver,
                                        !.rejected_at = now,
                                        !.rejection_reason = reason])
                 /\ approvalHistory' = Append(approvalHistory,
                        [action |-> "reject", approval_id |-> approvalId,
                         approver |-> approver, timestamp |-> now, text |-> reason])
                 /\ lastCall' = SimpleCall("rejectRequest", approvalId, "ok")

\* a request body without the field: undefined, or the empty string
NoText == ""

IsMissing_never(text) == FALSE

\* `!approver`, `!reason`
IsMissing(text) == text = NoText

\* app.post('/api/approval/:approvalId/reject'): the route answers 400 when the
\* approver or the reason is missing and calls rejectRequest otherwise
postReject(approvalId, approver, reason) ==
    IF IsMissing(approver) \/ IsMissing(reason)
    THEN /\ lastCall' = SimpleCall("rejectRequest", approvalId, "ValidationError")
         /\ UNCHANGED <<approvalStore, approvalHistory, clock, nextApprovalId, input>>
         /\ UNCHANGED vcVars
    ELSE rejectRequest(approvalId, approver, reason)

IsExpired_anyStatus(request, t) == request.expires_at < t

IsExpired_inclusive(request, t) == request.status = "pending" /\ request.expires_at <= t

\* the test of checkExpiredApprovals' loop
IsExpired(request, t) == request.status = "pending" /\ request.expires_at < t

checkExpiredApprovals ==
    LET expired == {id \in DOMAIN approvalStore : IsExpired(approvalStore[id], now)} IN
    /\ approvalStore' =
         [id \in DOMAIN approvalStore |->
            IF id \in expired
            THEN [approvalStore[id] EXCEPT !.status = "expired", !.expired_at = now]
            ELSE approvalStore[id]]
    /\ lastCall' = SimpleCall("checkExpiredApprovals", NoId, "ok")
    /\ UNCHANGED <<clock, approvalHistory, nextApprovalId, input>>
    /\ UNCHANGED vcVars

IsDueForEscalation_sinceLast(request, t) ==
    /\ request.status = "pending"
    /\ t - (IF request.escalated_at = NoTime THEN request.created_at
                                                ELSE request.escalated_at) > escalate_after

IsDueForEscalation_anyStatus(request, t) == t - request.created_at > escalate_after

\* the two tests of escalatePendingApprovals' loop
IsDueForEscalation(request, t) ==
    request.status = "pending" /\ t - request.created_at > escalate_after

escalatePendingApprovals_keepRoster ==
    /\ approvalStore' =
         [id \in DOMAIN approvalStore |->
            IF /\ IsDueForEscalation(approvalStore[id], now)
               /\ getNextApprovalLevel(approvalStore[id].approval_level) # Null
            THEN [approvalStore[id] EXCEPT
                    !.approval_level = getNextApprovalLevel(approvalStore[id].approval_level),
                    !.escalated_at = now]
            ELSE approvalStore[id]]
    /\ lastCall' = SimpleCall("escalatePendingApprovals", NoId, "ok")
    /\ UNCHANGED <<clock, approvalHistory, nextApprovalId, input>>
    /\ UNCHANGED vcVars

escalatePendingApprovals_postpone ==
    LET escalated == {id \in DOMAIN approvalStore :
                        /\ IsDueForEscalation(approvalStore[id], now)
                        /\ getNextApprovalLevel(approvalStore[id].approval_level) # Null}
    IN
    /\ approvalStore' =
         [id \in DOMAIN approvalStore |->
            IF id \in escalated
            THEN LET nextLevel == getNextApprovalLevel(approvalStore[id].approval_level)
                 IN  [approvalStore[id] EXCEPT !.approval_level = nextLevel,
                                               !.escalated_at = now,
                                               !.expires_at = calculateExpirationTime(now),
                                               !.approvers = getApproversForLevel(nextLevel)]
            ELSE approvalStore[id]]
    /\ lastCall' = SimpleCall("escalatePendingApprovals", NoId, "ok")
    /\ UNCHANGED <<clock, approvalHistory, nextApprovalId, input>>
    /\ UNCHANGED vcVars

escalatePendingApprovals ==
    LET escalated == {id \in DOMAIN approvalStore :
                        /\ IsDueForEscalation(approvalStore[id], now)
                        /\ getNextApprovalLevel(approvalStore[id].approval_level) # Null}
    IN
    /\ approvalStore' =
         [id \in DOMAIN approvalStore |->
            IF id \in escalated
            THEN LET nextLevel == getNextApprovalLevel(approvalStore[id].approval_level)
                 IN  [approvalStore[id] EXCEPT !.approval_level = nextLevel,
                                               !.escalated_at = now,
                                               !.approvers = getApproversForLevel(nextLevel)]
            ELSE approvalStore[id]]
    /\ lastCall' = SimpleCall("escalatePendingApprovals", NoId, "ok")
    /\ UNCHANGED <<clock, approvalHistory, nextApprovalId, input>>
    /\ UNCHANGED vcVars

\* the clock advances between calls
Tick ==
    /\ clock < Len(Instants)
    /\ clock' = clock + 1
    /\ UNCHANGED approvalVars
    /\ UNCHANGED vcVars

----------------------------------------------------------------------------
(* VersionControlEngine: inputs and helpers *)

MaxVersions == 2
MaxOpVersions == 3
MaxCleanups == 1
MaxUnpersisted == 1
MaxVcClock == 2
MaxInFlight == 2
MaxRaceVersions == 3
MaxCompareVersions == 2

UndefinedId == 0 - 2

\* identifiers and names are strings, written as sequences of tokens so that
\* the key templates can be modelled as concatenations
PlaybookIds == {<<"pb-1">>, <<"pb-2">>}
BranchNames == {<<"main">>, <<"feature">>}
TagNames == {<<"release">>}
Authors == {"system"}
KeepCounts == {1, 2}

\* a playbook as the version engine reads it: the id and a nested use case
VcPlaybook(id, severity) ==
    [playbook_id |-> id, use_case |-> [base_severity |-> severity]]

----------------------------------------------------------------------------
(* JSON text of a playbook.  Text is a sequence of tokens; an object is a   *)
(* record whose members are strings, except those named in ObjectValued.    *)

\* every key that occurs in a playbook or in the metadata of a version,
\* ascending as Array.prototype.sort orders them
KeyOrder == <<"base_severity", "playbook_id", "severity", "use_case">>

ObjectValued == {"use_case"}

\* Object.keys(obj).sort()
SortedKeys(obj) == SelectSeq(KeyOrder, LAMBDA key : key \in DOMAIN obj)

Quoted(text) == <<"\"">> \o text \o <<"\"">>

\* JSON.stringify(obj, propertyList): at EVERY depth only the keys of
\* propertyList are written, in the order of propertyList
RECURSIVE StringifyMembers(_, _, _, _)
StringifyMembers(obj, propertyList, i, first) ==
    IF i > Len(propertyList) THEN <<>>
    ELSE LET key == propertyList[i] IN
         IF key \notin DOMAIN obj
         THEN StringifyMembers(obj, propertyList, i + 1, first)
         ELSE (IF first THEN <<>> ELSE <<",">>)
              \o Quoted(<<key>>) \o <<":">>
              \o (IF key \in ObjectValued
                  THEN <<"{">> \o StringifyMembers(obj[key], propertyList, 1, TRUE) \o <<"}">>
                  ELSE Quoted(obj[key]))
              \o StringifyMembers(obj, propertyList, i + 1, FALSE)

Stringify(obj, propertyList) ==
    <<"{">> \o StringifyMembers(obj, propertyList, 1, TRUE) \o <<"}">>

\* JSON.parse(JSON.stringify(playbook)): every member is copied
DeepClone(obj) ==
    [key \in DOMAIN obj |->
        IF key \in ObjectValued THEN [inner \in DOMAIN obj[key] |-> obj[key][inner]]
        ELSE obj[key]]

\* crypto sha256 digest: different texts give different digests
Sha256(text) == <<"sha256:">> \o text

calculateChecksum(playbook) == Sha256(Stringify(playbook, SortedKeys(playbook)))

\* the calls of createVersion that are tried: playbook and branch
CreateInputs ==
    {[playbook |-> VcPlaybook(<<"pb-1">>, <<"low">>), branch |-> <<"main">>],
     [playbook |-> VcPlaybook(<<"pb-1">>, <<"high">>), branch |-> <<"feature">>],
     [playbook |-> VcPlaybook(<<"pb-2">>, <<"low">>), branch |-> <<"main">>]}

\* the calls tried within one process: a second content for the main branch
OpsCreateInputs ==
    CreateInputs \cup
    {[playbook |-> VcPlaybook(<<"pb-1">>, <<"high">>), branch |-> <<"main">>]}

\* a createVersion call whose playbook has no playbook_id
NoIdInputs ==
    {[playbook |-> [use_case |-> [base_severity |-> <<"low">>]], branch |-> <<"main">>]}

\* playbook.playbook_id: undefined when the property is absent, written
\* "undefined" by a template string
playbookIdOf(playbook) ==
    IF "playbook_id" \in DOMAIN playbook THEN playbook.playbook_id ELSE <<"undefined">>

\* the metadata object of createVersion: the fields read from the playbook
metadataOf(playbook) == [severity |-> playbook.use_case.base_severity]

\* `${playbookId}:${branch}` and `${playbookId}:${tagName}`
BranchKey(playbookId, branch) == playbookId \o <<":">> \o branch

TagKey(playbookId, tagName) == playbookId \o <<":">> \o tagName

\* Map.set: an existing key keeps its place, a new key goes last
OrderSet(order, id) ==
    IF \E i \in DOMAIN order : order[i] = id THEN order ELSE Append(order, id)

MapDelete_none(map, keys) == map

\* Map.delete
MapDelete(map, keys) == [k \in DOMAIN map \ keys |-> map[k]]

OrderDelete(order, ids) == SelectSeq(order, LAMBDA id : id \notin ids)

VcCall(op, result, versionId) == [op |-> op, result |-> result, version_id |-> versionId]

generateVersionId_reused ==
    IF DOMAIN versions = {} THEN nextVersionId
    ELSE CHOOSE id \in DOMAIN versions : TRUE

\* `v_${uuidv4()}`: an id never given before
generateVersionId == nextVersionId

\* the semantic version "major.minor.patch", split at the dots
FirstVersionNumber == <<1, 0, 0>>

IncrementPatch_same(parts) == parts

\* parts[2] = (parseInt(parts[2]) + 1).toString()
IncrementPatch(parts) == [parts EXCEPT ![3] = @ + 1]

getNextVersionNumber(playbookId, branch) ==
    LET branchKey == BranchKey(playbookId, branch) IN
    IF branchKey \notin DOMAIN branches THEN FirstVersionNumber
    ELSE IF branches[branchKey] \notin DOMAIN versions THEN FirstVersionNumber
    ELSE IncrementPatch(versions[branches[branchKey]].version_number)

getParentVersion(playbookId, branch) ==
    LET branchKey == BranchKey(playbookId, branch) IN
    IF branchKey \in DOMAIN branches THEN branches[branchKey] ELSE NoId

\* this.branches.get(key), undefined when the key is absent
BranchGet(branchKey) ==
    IF branchKey \in DOMAIN branches THEN branches[branchKey] ELSE UndefinedId

AuditLimit == 10000
AuditKeep == 5000

addAuditEntry_replace(trail, action, playbookId, versionId, author, timestamp, count) ==
    LET entry == [action |-> action, playbook_id |-> playbookId,
                  version_id |-> versionId, author |-> author,
                  timestamp |-> timestamp, deleted_count |-> count]
    IN  IF trail = <<>> THEN <<entry>> ELSE [trail EXCEPT ![Len(trail)] = entry]

addAuditEntry(trail, action, playbookId, versionId, author, timestamp, count) ==
    LET pushed == Append(trail,
                    [action |-> action, playbook_id |-> playbookId,
                     version_id |-> versionId, author |-> author,
                     timestamp |-> timestamp, deleted_count |-> count])
    IN  IF Len(pushed) > AuditLimit
        THEN SubSeq(pushed, Len(pushed) - AuditKeep + 1, Len(pushed))
        ELSE pushed

\* the result of ...spread of a version id that is not in the versions Map
MissingVersion ==
    [version_id |-> UndefinedId, playbook_id |-> <<"undefined">>,
     version_number |-> <<>>, branch |-> <<"undefined">>,
     checksum |-> <<"undefined">>, created_at |-> NoTime,
     created_by |-> Undefined, change_description |-> <<>>,
     parent_version |-> UndefinedId, playbook_snapshot |-> Undefined,
     metadata |-> Undefined,
     merge_source |-> UndefinedId, rollback_from |-> UndefinedId]

VersionGet(versionId) ==
    IF versionId \in DOMAIN versions THEN versions[versionId] ELSE MissingVersion

\* Array.prototype.sort is stable: insert v after every entry that is not older
RECURSIVE InsertByCreatedAtDesc(_, _)
InsertByCreatedAtDesc(sorted, v) ==
    IF sorted = <<>> THEN <<v>>
    ELSE IF sorted[1].created_at >= v.created_at
         THEN <<sorted[1]>> \o InsertByCreatedAtDesc(Tail(sorted), v)
         ELSE <<v>> \o sorted

RECURSIVE SortByCreatedAtDesc(_)
SortByCreatedAtDesc(seq) ==
    IF seq = <<>> THEN <<>>
    ELSE InsertByCreatedAtDesc(SortByCreatedAtDesc(SubSeq(seq, 1, Len(seq) - 1)),
                               seq[Len(seq)])

getVersionHistory(playbookId) ==
    LET all == [i \in DOMAIN versionOrder |-> versions[versionOrder[i]]]
    IN  SortByCreatedAtDesc(SelectSeq(all, LAMBDA v : v.playbook_id = playbookId))

----------------------------------------------------------------------------
(* VersionControlEngine: operations.  persistOk tells whether the write of   *)
(* the version file succeeds.                                                *)

\* what the four version-creating operations do once the new version is built
CommitVersion(op, version, removedKeys, auditAction, persistOk) ==
    /\ persistOk \/ Cardinality(DOMAIN versions \ DOMAIN disk) < MaxUnpersisted
    /\ versions' = StoreSet(versions, version.version_id, version)
    /\ versionOrder' = OrderSet(versionOrder, version.version_id)
    /\ branches' = MapDelete(StoreSet(branches,
                                BranchKey(version.playbook_id, version.branch),
                                version.version_id),
                             removedKeys)
    /\ nextVersionId' = nextVersionId + 1
    /\ IF persistOk
       THEN /\ disk' = StoreSet(disk, version.version_id, version)
            /\ auditTrail' = addAuditEntry(auditTrail, auditAction, version.playbook_id,
                                version.version_id, version.created_by,
                                version.created_at, NoId)
            /\ vcLast' = VcCall(op, "ok", version.version_id)
       ELSE /\ UNCHANGED <<disk, auditTrail>>
            /\ vcLast' = VcCall(op, "PersistFailed", version.version_id)
    /\ UNCHANGED <<tags, clock>>
    /\ UNCHANGED <<approvalVars, inFlightVars>>

VcFail(op, result) ==
    /\ vcLast' = VcCall(op, result, NoId)
    /\ UNCHANGED <<versions, versionOrder, branches, tags, auditTrail, disk,
                   nextVersionId, clock>>
    /\ UNCHANGED <<approvalVars, inFlightVars>>

createVersion(playbook, author, branch, persistOk) ==
    CommitVersion("createVersion",
        [version_id |-> generateVersionId,
         playbook_id |-> playbookIdOf(playbook),
         version_number |-> getNextVersionNumber(playbookIdOf(playbook), branch),
         branch |-> branch,
         checksum |-> calculateChecksum(playbook),
         created_at |-> now,
         created_by |-> author,
         change_description |-> <<"edit">>,
         parent_version |-> getParentVersion(playbookIdOf(playbook), branch),
         playbook_snapshot |-> DeepClone(playbook),
         metadata |-> metadataOf(playbook),
         merge_source |-> UndefinedId,
         rollback_from |-> UndefinedId],
        {}, "create_version", persistOk)

branchExists_never(branchKey) == FALSE

\* this.branches.has(branchKey)
branchExists(branchKey) == branchKey \in DOMAIN branches

createBranch(playbookId, branchName, fromVersionId, author, persistOk) ==
    IF fromVersionId \notin DOMAIN versions
    THEN VcFail("createBranch", "NotFound")
    ELSE IF versions[fromVersionId].playbook_id # playbookId
    THEN VcFail("createBranch", "ValidationError")
    ELSE IF branchExists(BranchKey(playbookId, branchName))
    THEN VcFail("createBranch", "Conflict")
    ELSE LET fromVersion == versions[fromVersionId] IN
         CommitVersion("createBranch",
            [fromVersion EXCEPT
                !.version_id = generateVersionId,
                !.branch = branchName,
                !.created_at = now,
                !.created_by = author,
                !.change_description = <<"Created branch">> \o branchName,
                !.parent_version = fromVersionId],
            {}, "create_branch", persistOk)

mergeBranch(playbookId, sourceBranch, targetBranch, author, persistOk) ==
    LET sourceBranchKey == BranchKey(playbookId, sourceBranch)
        targetBranchKey == BranchKey(playbookId, targetBranch)
    IN  IF sourceBranchKey \notin DOMAIN branches
        THEN VcFail("mergeBranch", "NotFound")
        ELSE LET sourceVersionId == branches[sourceBranchKey]
                 sourceVersion == VersionGet(sourceVersionId)
             IN  CommitVersion("mergeBranch",
                    [sourceVersion EXCEPT
                        !.version_id = generateVersionId,
                        !.branch = targetBranch,
                        !.created_at = now,
                        !.created_by = author,
                        !.change_description = <<"Merged branch">> \o sourceBranch,
                        !.parent_version = BranchGet(targetBranchKey),
                        !.merge_source = sourceVersionId],
                    {sourceBranchKey}, "merge_branch", persistOk)

rollbackToVersion(playbookId, versionId, author, persistOk) ==
    IF versionId \notin DOMAIN versions
    THEN VcFail("rollbackToVersion", "NotFound")
    ELSE IF versions[versionId].playbook_id # playbookId
    THEN VcFail("rollbackToVersion", "ValidationError")
    ELSE LET targetVersion == versions[versionId] IN
         CommitVersion("rollbackToVersion",
            [targetVersion EXCEPT
                !.version_id = generateVersionId,
                !.version_number = getNextVersionNumber(playbookId, targetVersion.branch),
                !.created_at = now,
                !.created_by = author,
                !.change_description = <<"Rollback to version">>,
                !.parent_version = BranchGet(BranchKey(playbookId, targetVersion.branch)),
                !.rollback_from = versionId],
            {}, "rollback", persistOk)

tagExists_unlessApproved(tagKey) ==
    \/ tagKey \in DOMAIN tags
    \/ \E id \in DOMAIN approvalStore : approvalStore[id].status # "approved"

tagExists_never(tagKey) == FALSE

\* this.tags.has(tagKey)
tagExists(tagKey) == tagKey \in DOMAIN tags

createTag(playbookId, tagName, versionId, author) ==
    IF versionId \notin DOMAIN versions
    THEN VcFail("createTag", "NotFound")
    ELSE IF versions[versionId].playbook_id # playbookId
    THEN VcFail("createTag", "ValidationError")
    ELSE IF tagExists(TagKey(playbookId, tagName))
    THEN VcFail("createTag", "Conflict")
    ELSE /\ tags' = StoreSet(tags, TagKey(playbookId, tagName),
                        [playbook_id |-> playbookId, tag_name |-> tagName,
                         version_id |-> versionId,
                         version_number |-> versions[versionId].version_number,
                         created_at |-> now, created_by |-> author,
                         description |-> <<"release tag">>])
         /\ auditTrail' = addAuditEntry(auditTrail, "create_tag", playbookId, versionId,
                                        author, now, NoId)
         /\ vcLast' = VcCall("createTag", "ok", versionId)
         /\ UNCHANGED <<versions, versionOrder, branches, disk, nextVersionId, clock>>
         /\ UNCHANGED <<approvalVars, inFlightVars>>

isTagged_never(playbookId, versionId) == FALSE

\* this.getTags(playbookId).some(tag => tag.version_id === version.version_id)
isTagged(playbookId, versionId) ==
    \E k \in DOMAIN tags :
        tags[k].playbook_id = playbookId /\ tags[k].version_id = versionId

isBranchHead_never(versionId) == FALSE

\* Array.from(this.branches.values()).includes(version.version_id)
isBranchHead(versionId) == \E k \in DOMAIN branches : branches[k] = versionId

cleanupOldVersions(playbookId, keepCount) ==
    LET history == getVersionHistory(playbookId) IN
    IF Len(history) <= keepCount
    THEN /\ vcLast' = VcCall("cleanupOldVersions", "ok", NoId)
         /\ UNCHANGED <<versions, versionOrder, branches, tags, auditTrail, disk,
                        nextVersionId, clock>>
         /\ UNCHANGED <<approvalVars, inFlightVars>>
    ELSE LET versionsToDelete == SubSeq(history, keepCount + 1, Len(history))
             deleted == {versionsToDelete[i].version_id : i \in
                            {j \in DOMAIN versionsToDelete :
                                /\ ~isTagged(playbookId, versionsToDelete[j].version_id)
                                /\ ~isBranchHead(versionsToDelete[j].version_id)}}
         IN  /\ Len(SelectSeq(auditTrail,
                        LAMBDA e : e.action = "cleanup_versions")) < MaxCleanups
             /\ versions' = MapDelete(versions, deleted)
             /\ versionOrder' = OrderDelete(versionOrder, deleted)
             /\ disk' = MapDelete(disk, deleted)
             /\ auditTrail' = addAuditEntry(auditTrail, "cleanup_versions", playbookId,
                                  UndefinedId, "system", now, Cardinality(deleted))
             /\ vcLast' = VcCall("cleanupOldVersions", "ok", NoId)
             /\ UNCHANGED <<branches, tags, nextVersionId, clock>>
             /\ UNCHANGED <<approvalVars, inFlightVars>>

\* the loop of loadVersions over the first `count` files of the listing
RECURSIVE LoadFiles(_, _, _)
LoadFiles(files, count, mem) ==
    IF count = 0 THEN mem
    ELSE LET before == LoadFiles(files, count - 1, mem)
             version == disk[files[count]]
         IN  [versions |-> StoreSet(before.versions, version.version_id, version),
              order |-> OrderSet(before.order, version.version_id),
              branches |-> StoreSet(before.branches,
                              BranchKey(version.playbook_id, version.branch),
                              version.version_id)]

Listings(ids) ==
    {files \in [1..Cardinality(ids) -> ids] :
        \A i, j \in DOMAIN files : i # j => files[i] # files[j]}

\* files: the directory listing; count: the files read before a read fails
loadVersions(files, count) ==
    LET mem == LoadFiles(files, count,
                  [versions |-> versions, order |-> versionOrder, branches |-> branches])
    IN  /\ versions' = mem.versions
        /\ versionOrder' = mem.order
        /\ branches' = mem.branches
        /\ vcLast' = VcCall("loadVersions", "ok", NoId)
        /\ UNCHANGED <<tags, auditTrail, disk, nextVersionId, clock>>
        /\ UNCHANGED <<approvalVars, inFlightVars>>

\* the process stops and a new one constructs a fresh engine over the same files
Restart ==
    /\ versions' = <<>>
    /\ versionOrder' = <<>>
    /\ branches' = <<>>
    /\ tags' = <<>>
    /\ auditTrail' = <<>>
    /\ vcLast' = VcCall("constructor", "ok", NoId)
    /\ UNCHANGED <<disk, nextVersionId, clock>>
    /\ UNCHANGED <<approvalVars, inFlightVars>>

----------------------------------------------------------------------------
(* VersionControlEngine: compareVersions *)

\* keys1.has(key), keys2.has(key)
HasKey(obj, key) == key \in DOMAIN obj

StringifyValue_same(obj, key) == <<>>

\* JSON.stringify(obj[key])
StringifyValue(obj, key) ==
    IF key \in ObjectValued THEN Stringify(obj[key], KeyOrder) ELSE Quoted(obj[key])

\* a list of change entries, one for each of the keys
ChangeEntries(keys, obj1, obj2) ==
    [i \in DOMAIN keys |->
        [key |-> keys[i],
         old_value |-> IF HasKey(obj1, keys[i]) THEN obj1[keys[i]] ELSE Undefined,
         new_value |-> IF HasKey(obj2, keys[i]) THEN obj2[keys[i]] ELSE Undefined]]

detectChanges(obj1, obj2) ==
    [added |-> ChangeEntries(SelectSeq(SortedKeys(obj2),
                                LAMBDA key : ~HasKey(obj1, key)), obj1, obj2),
     removed |-> ChangeEntries(SelectSeq(SortedKeys(obj1),
                                LAMBDA key : ~HasKey(obj2, key)), obj1, obj2),
     modified |-> ChangeEntries(SelectSeq(SortedKeys(obj1),
                                LAMBDA key : /\ HasKey(obj2, key)
                                             /\ StringifyValue(obj1, key)
                                                    # StringifyValue(obj2, key)),
                                obj1, obj2)]

compareVersions(versionId1, versionId2) ==
    IF versionId1 \notin DOMAIN versions \/ versionId2 \notin DOMAIN versions
    THEN VcFail("compareVersions", "NotFound")
    ELSE /\ vcLast' =
              [op |-> "compareVersions", result |-> "ok", version_id |-> NoId,
               comparison |->
                 [version1 |-> versionId1,
                  version2 |-> versionId2,
                  changes |-> detectChanges(versions[versionId1].playbook_snapshot,
                                            versions[versionId2].playbook_snapshot),
                  metadata_changes |-> detectChanges(versions[versionId1].metadata,
                                                     versions[versionId2].metadata)]]
         /\ UNCHANGED <<versions, versionOrder, branches, tags, auditTrail, disk,
                        nextVersionId, clock>>
         /\ UNCHANGED <<approvalVars, inFlightVars>>

----------------------------------------------------------------------------
(* server.js: what a route answers for the outcome of the engine call        *)

StatusOk == 200
StatusServerError == 500

\* the kinds of failure an engine call ends with
ErrorKinds == {"NotFound", "Conflict", "Unauthorized", "InvalidState", "ValidationError"}

\* try { ...; res.json(...) } catch (error) { res.status(500).json({ error: error.message }) }
routeStatus(result) == IF result = "ok" THEN StatusOk ELSE StatusServerError

----------------------------------------------------------------------------
(* VersionControlEngine: createVersion and rollbackToVersion as the async     *)
(* functions they are.  A call runs until its next await; the continuation   *)
(* after an await of an already settled promise is a microtask, run first in *)
(* first out before any I/O callback; the continuation after the file write  *)
(* runs when the write has completed.                                        *)

Callers == 1..MaxInFlight

Suspended(op, pc, version) == [op |-> op, pc |-> pc, version |-> version]

\* a caller may invoke the engine from a new turn of the event loop or from
\* the turn that has just started the other calls
CallerMayInvoke(caller) ==
    /\ caller \notin DOMAIN pending
    /\ \A queued \in DOMAIN microtasks :
          pending[microtasks[queued]].pc = "version_number"

\* createVersion up to `await this.getNextVersionNumber(...)`: the id, the
\* timestamp, the checksum and the version number are computed
createVersionCall(caller, playbook, author, branch) ==
    /\ CallerMayInvoke(caller)
    /\ pending' = StoreSet(pending, caller,
          Suspended("createVersion", "version_number",
            [version_id |-> generateVersionId,
             playbook_id |-> playbookIdOf(playbook),
             version_number |-> getNextVersionNumber(playbookIdOf(playbook), branch),
             branch |-> branch,
             checksum |-> calculateChecksum(playbook),
             created_at |-> now,
             created_by |-> author,
             change_description |-> <<"edit">>,
             parent_version |-> UndefinedId,
             playbook_snapshot |-> playbook,
             metadata |-> Undefined,
             merge_source |-> UndefinedId,
             rollback_from |-> UndefinedId]))
    /\ microtasks' = Append(microtasks, caller)
    /\ nextVersionId' = nextVersionId + 1
    /\ UNCHANGED <<versions, versionOrder, branches, tags, auditTrail, disk, vcLast, clock>>
    /\ UNCHANGED approvalVars

\* createVersion from the first await up to `await this.getParentVersion(...)`
createVersionParent(caller) ==
    /\ microtasks # <<>>
    /\ Head(microtasks) = caller
    /\ pending[caller].op = "createVersion"
    /\ pending[caller].pc = "version_number"
    /\ pending' = [pending EXCEPT
          ![caller].pc = "parent_version",
          ![caller].version.parent_version =
              getParentVersion(pending[caller].version.playbook_id,
                               pending[caller].version.branch)]
    /\ microtasks' = Append(Tail(microtasks), caller)
    /\ UNCHANGED <<versions, versionOrder, branches, tags, auditTrail, disk,
                   nextVersionId, vcLast, clock>>
    /\ UNCHANGED approvalVars

\* versions.set, branches.set and the call of persistVersion
StoreAndStartWrite(caller, version) ==
    /\ versions' = StoreSet(versions, version.version_id, version)
    /\ versionOrder' = OrderSet(versionOrder, version.version_id)
    /\ branches' = StoreSet(branches, BranchKey(version.playbook_id, version.branch),
                            version.version_id)
    /\ pending' = [pending EXCEPT ![caller].pc = "persist", ![caller].version = version]
    /\ microtasks' = Tail(microtasks)
    /\ UNCHANGED <<tags, auditTrail, disk, nextVersionId, vcLast, clock>>
    /\ UNCHANGED approvalVars

\* createVersion from the second await up to `await this.persistVersion(version)`
createVersionStore(caller) ==
    /\ microtasks # <<>>
    /\ Head(microtasks) = caller
    /\ pending[caller].op = "createVersion"
    /\ pending[caller].pc = "parent_version"
    /\ StoreAndStartWrite(caller,
          [pending[caller].version EXCEPT
              !.playbook_snapshot = DeepClone(pending[caller].version.playbook_snapshot),
              !.metadata = metadataOf(pending[caller].version.playbook_snapshot)])

\* rollbackToVersion up to `await this.getNextVersionNumber(...)`
rollbackToVersionCall(caller, playbookId, versionId, author) ==
    /\ CallerMayInvoke(caller)
    /\ IF versionId \notin DOMAIN versions
       THEN VcFail("rollbackToVersion", "NotFound")
       ELSE IF versions[versionId].playbook_id # playbookId
       THEN VcFail("rollbackToVersion", "ValidationError")
       ELSE LET targetVersion == versions[versionId] IN
            /\ pending' = StoreSet(pending, caller,
                  Suspended("rollbackToVersion", "version_number",
                    [targetVersion EXCEPT
                        !.version_id = generateVersionId,
                        !.version_number =
                            getNextVersionNumber(playbookId, targetVersion.branch),
                        !.created_by = author,
                        !.rollback_from = versionId]))
            /\ microtasks' = Append(microtasks, caller)
            /\ nextVersionId' = nextVersionId + 1
            /\ UNCHANGED <<versions, versionOrder, branches, tags, auditTrail, disk,
                           vcLast, clock>>
            /\ UNCHANGED approvalVars

\* rollbackToVersion from the await up to `await this.persistVersion(...)`
rollbackToVersionStore(caller) ==
    /\ microtasks # <<>>
    /\ Head(microtasks) = caller
    /\ pending[caller].op = "rollbackToVersion"
    /\ pending[caller].pc = "version_number"
    /\ StoreAndStartWrite(caller,
          [pending[caller].version EXCEPT
              !.created_at = now,
              !.change_description = <<"Rollback to version">>,
              !.parent_version = BranchGet(BranchKey(pending[caller].version.playbook_id,
                                                     pending[caller].version.branch))])

\* the file is written: the audit entry is appended and the call returns
versionPersisted(caller) ==
    /\ microtasks = <<>>
    /\ pending[caller].pc = "persist"
    /\ LET version == pending[caller].version IN
       /\ disk' = StoreSet(disk, version.version_id, version)
       /\ auditTrail' = addAuditEntry(auditTrail,
                            IF pending[caller].op = "createVersion"
                            THEN "create_version" ELSE "rollback",
                            version.playbook_id, version.version_id,
                            version.created_by, version.created_at, NoId)
       /\ vcLast' = VcCall(pending[caller].op, "ok", version.version_id)
    /\ pending' = MapDelete(pending, {caller})
    /\ UNCHANGED <<versions, versionOrder, branches, tags, nextVersionId, microtasks, clock>>
    /\ UNCHANGED approvalVars

----------------------------------------------------------------------------
(* Specifications *)

InitEngine ==
    /\ clock = 1
    /\ approvalStore = <<>>
    /\ approvalHistory = <<>>
    /\ nextApprovalId = 1
    /\ lastCall = SimpleCall("constructor", NoId, "ok")
    /\ versions = <<>>
    /\ versionOrder = <<>>
    /\ branches = <<>>
    /\ tags = <<>>
    /\ auditTrail = <<>>
    /\ disk = <<>>
    /\ nextVersionId = 1
    /\ vcLast = VcCall("constructor", "ok", NoId)
    /\ pending = <<>>
    /\ microtasks = <<>>

Init ==
    /\ InitEngine
    /\ input = QuietInput

Next ==
    \/ \E in \in LifecycleInputs : evaluateApprovalGates(in.playbook, in.hour)
    \/ \E id \in 1..MaxRequests, approver \in Users, comments \in Comments :
            approveRequest(id, approver, comments)
    \/ \E id \in 1..MaxRequests, approver \in Users, reason \in Reasons \cup {NoText} :
            postReject(id, approver, reason)
    \/ checkExpiredApprovals
    \/ escalatePendingApprovals
    \/ Tick

Spec == Init /\ [][Next]_vars

\* evaluateApprovalGates as a function of its input
InitGates ==
    /\ InitEngine
    /\ input \in [playbook : Playbooks, hour : Hours]

NextGates == evaluateApprovalGates(input.playbook, input.hour)

SpecGates == InitGates /\ [][NextGates]_vars

\* the version-control engine
NextVC ==
    \/ \E call \in CreateInputs, author \in Authors, persistOk \in BOOLEAN :
            /\ createVersion(call.playbook, author, call.branch, persistOk)
            /\ nextVersionId' <= MaxVersions + 1
    \/ \E playbookId \in PlaybookIds, branchName \in BranchNames,
            fromVersionId \in 1..MaxVersions, author \in Authors, persistOk \in BOOLEAN :
            /\ createBranch(playbookId, branchName, fromVersionId, author, persistOk)
            /\ nextVersionId' <= MaxVersions + 1
    \/ \E playbookId \in PlaybookIds, sourceBranch \in BranchNames,
            targetBranch \in BranchNames, author \in Authors, persistOk \in BOOLEAN :
            /\ mergeBranch(playbookId, sourceBranch, targetBranch, author, persistOk)
            /\ nextVersionId' <= MaxVersions + 1
    \/ \E playbookId \in PlaybookIds, versionId \in 1..MaxVersions,
            author \in Authors, persistOk \in BOOLEAN :
            /\ rollbackToVersion(playbookId, versionId, author, persistOk)
            /\ nextVersionId' <= MaxVersions + 1
    \/ \E playbookId \in PlaybookIds, tagName \in TagNames,
            versionId \in 1..MaxVersions, author \in Authors :
            createTag(playbookId, tagName, versionId, author)
    \/ \E playbookId \in PlaybookIds, keepCount \in KeepCounts :
            cleanupOldVersions(playbookId, keepCount)
    \/ \E files \in Listings(DOMAIN disk), count \in 0..Cardinality(DOMAIN disk) :
            loadVersions(files, count)
    \/ Restart
    \/ (clock < MaxVcClock /\ Tick)

SpecVC == Init /\ [][NextVC]_vars

\* the version-control engine within one process whose writes all succeed,
\* without tags
NextVCOps ==
    \/ \E call \in OpsCreateInputs \cup NoIdInputs, author \in Authors :
            /\ createVersion(call.playbook, author, call.branch, TRUE)
            /\ nextVersionId' <= MaxOpVersions + 1
    \/ \E playbookId \in PlaybookIds, branchName \in BranchNames,
            fromVersionId \in 1..MaxOpVersions, author \in Authors :
            /\ createBranch(playbookId, branchName, fromVersionId, author, TRUE)
            /\ nextVersionId' <= MaxOpVersions + 1
    \/ \E playbookId \in PlaybookIds, sourceBranch \in BranchNames,
            targetBranch \in BranchNames, author \in Authors :
            /\ mergeBranch(playbookId, sourceBranch, targetBranch, author, TRUE)
            /\ nextVersionId' <= MaxOpVersions + 1
    \/ \E playbookId \in PlaybookIds, versionId \in 1..MaxOpVersions,
            author \in Authors :
            /\ rollbackToVersion(playbookId, versionId, author, TRUE)
            /\ nextVersionId' <= MaxOpVersions + 1
    \/ \E playbookId \in PlaybookIds, keepCount \in KeepCounts :
            cleanupOldVersions(playbookId, keepCount)
    \/ (clock < MaxVcClock /\ Tick)

SpecVCOps == Init /\ [][NextVCOps]_vars

\* versions are created and any two of them compared
NextVCCompare ==
    \/ \E call \in OpsCreateInputs \cup NoIdInputs, author \in Authors :
            /\ createVersion(call.playbook, author, call.branch, TRUE)
            /\ nextVersionId' <= MaxCompareVersions + 1
    \/ \E versionId1, versionId2 \in 1..(MaxCompareVersions + 1) :
            compareVersions(versionId1, versionId2)

SpecVCCompare == Init /\ [][NextVCCompare]_vars

\* callers that do not wait for one another
NextVCRace ==
    \/ \E caller \in Callers, call \in OpsCreateInputs, author \in Authors :
            /\ createVersionCall(caller, call.playbook, author, call.branch)
            /\ nextVersionId' <= MaxRaceVersions + 1
    \/ \E caller \in Callers, playbookId \in PlaybookIds,
            versionId \in 1..MaxRaceVersions, author \in Authors :
            /\ rollbackToVersionCall(caller, playbookId, versionId, author)
            /\ nextVersionId' <= MaxRaceVersions + 1
    \/ \E caller \in DOMAIN pending : createVersionParent(caller)
    \/ \E caller \in DOMAIN pending : createVersionStore(caller)
    \/ \E caller \in DOMAIN pending : rollbackToVersionStore(caller)
    \/ \E caller \in DOMAIN pending : versionPersisted(caller)
    \/ /\ microtasks = <<>>
       /\ clock < MaxVcClock
       /\ Tick

SpecVCRace == Init /\ [][NextVCRace]_vars

----------------------------------------------------------------------------
(* Properties of the approval request state machine *)

Terminal(request) == request.status \in {"approved", "rejected", "expired"}

\* level_1 < level_2 < level_3
LevelRank(level) == CHOOSE i \in DOMAIN Levels : Levels[i] = level

Roster(request) == Range(ConfigApprovers[request.approval_level])

Age(request) == now - request.created_at

StoreAndHistoryUnchanged ==
    approvalStore' = approvalStore /\ approvalHistory' = approvalHistory

\* C1: a request whose status is approved, rejected or expired never changes
\* status again (and stays in the store), whatever operation runs next.
C1_TerminalStatusIsFinal ==
    [][\A id \in DOMAIN approvalStore :
          Terminal(approvalStore[id]) =>
              /\ id \in DOMAIN approvalStore'
              /\ approvalStore'[id].status = approvalStore[id].status]_vars

\* an approved request that outlived its expires_at, right after an expiry sweep
C1_Witness ==
    /\ lastCall.op = "checkExpiredApprovals"
    /\ \E id \in DOMAIN approvalStore :
          /\ approvalStore[id].status = "approved"
          /\ approvalStore[id].expires_at < now

\* C2: approval_level never decreases, and never changes once the request is
\* terminal.
C2_LevelMonotone ==
    [][\A id \in DOMAIN approvalStore :
          /\ id \in DOMAIN approvalStore'
          /\ LevelRank(approvalStore'[id].approval_level)
                >= LevelRank(approvalStore[id].approval_level)
          /\ Terminal(approvalStore[id]) =>
                approvalStore'[id].approval_level = approvalStore[id].approval_level]_vars

\* an escalation sweep has just run over a pending level_3 request that an
\* earlier sweep had escalated and that is old enough to be escalated again
C2_Witness ==
    /\ lastCall.op = "escalatePendingApprovals"
    /\ \E id \in DOMAIN approvalStore :
          /\ approvalStore[id].status = "pending"
          /\ approvalStore[id].approval_level = "level_3"
          /\ approvalStore[id].escalated_at # NoTime
          /\ approvalStore[id].escalated_at < now
          /\ Age(approvalStore[id]) > escalate_after

\* C3: approveRequest on a pending request by a user outside the roster of
\* the request's current level fails as Unauthorized and changes neither the
\* request nor the history.
C3_UnauthorizedApproveRejected ==
    [][\A id \in DOMAIN approvalStore, approver \in Users, comments \in Comments :
          ( /\ lastCall'.op = "approveRequest"
            /\ lastCall'.approval_id = id
            /\ approvalStore[id].status = "pending"
            /\ approver \notin Roster(approvalStore[id])
            /\ approveRequest(id, approver, comments) )
          => /\ lastCall'.result = "Unauthorized"
             /\ StoreAndHistoryUnchanged]_vars

\* an approve call has just failed as Unauthorized on an escalated request
\* that is still pending with no terminal field set
C3_Witness ==
    /\ lastCall.op = "approveRequest"
    /\ lastCall.result = "Unauthorized"
    /\ lastCall.approval_id \in DOMAIN approvalStore
    /\ LET request == approvalStore[lastCall.approval_id] IN
          /\ request.status = "pending"
          /\ request.escalated_at # NoTime
          /\ request.approved_by = Undefined
          /\ approvalHistory = <<>>

\* C4: approveRequest or rejectRequest on a request that is not pending fails
\* as InvalidState for every caller (roster members included) and changes
\* neither the request nor the history.
C4_NonPendingIsInvalidState ==
    [][\A id \in DOMAIN approvalStore, approver \in Users :
          ( /\ lastCall'.op \in {"approveRequest", "rejectRequest"}
            /\ lastCall'.approval_id = id
            /\ Terminal(approvalStore[id])
            /\ \/ \E comments \in Comments : approveRequest(id, approver, comments)
               \/ \E reason \in Reasons : rejectRequest(id, approver, reason) )
          => /\ lastCall'.result = "InvalidState"
             /\ StoreAndHistoryUnchanged]_vars

\* a call has just failed as InvalidState on an approved request
C4_Witness ==
    /\ lastCall.op \in {"approveRequest", "rejectRequest"}
    /\ lastCall.result = "InvalidState"
    /\ lastCall.approval_id \in DOMAIN approvalStore
    /\ approvalStore[lastCall.approval_id].status = "approved"

\* C5: checkExpiredApprovals expires exactly the pending requests whose
\* expires_at is earlier than the sweep time, leaves every other request as
\* it was, and approve/reject on an expired request fail as InvalidState.
C5_ExpirySweep ==
    [][/\ (lastCall'.op = "checkExpiredApprovals" /\ checkExpiredApprovals) =>
            \A id \in DOMAIN approvalStore :
                LET request == approvalStore[id] IN
                /\ id \in DOMAIN approvalStore'
                /\ (request.status = "pending" /\ request.expires_at < now)
                      => approvalStore'[id].status = "expired"
                /\ (request.status = "pending" /\ ~(request.expires_at < now))
                      => approvalStore'[id] = request
                /\ Terminal(request) => approvalStore'[id] = request
       /\ \A id \in DOMAIN approvalStore, approver \in Users :
            ( /\ lastCall'.op \in {"approveRequest", "rejectRequest"}
              /\ lastCall'.approval_id = id
              /\ approvalStore[id].status = "expired"
              /\ \/ \E comments \in Comments : approveRequest(id, approver, comments)
                 \/ \E reason \in Reasons : rejectRequest(id, approver, reason) )
            => /\ lastCall'.result = "InvalidState"
               /\ StoreAndHistoryUnchanged]_vars

\* a call has just failed as InvalidState on a request whose expires_at had
\* passed and that the sweep expired at this instant
C5_Witness ==
    /\ lastCall.op \in {"approveRequest", "rejectRequest"}
    /\ lastCall.result = "InvalidState"
    /\ lastCall.approval_id \in DOMAIN approvalStore
    /\ approvalStore[lastCall.approval_id].status = "expired"
    /\ approvalStore[lastCall.approval_id].expired_at = now
    /\ approvalStore[lastCall.approval_id].expires_at < now

\* C6: one escalatePendingApprovals call moves a pending request older than
\* escalate_after up by exactly one level, leaves a level_3 request at
\* level_3, and approval_level is always one of the three levels.
C6_EscalateOneStep ==
    [][/\ \A id \in DOMAIN approvalStore' :
            approvalStore'[id].approval_level \in Range(Levels)
       /\ (lastCall'.op = "escalatePendingApprovals" /\ escalatePendingApprovals) =>
            \A id \in DOMAIN approvalStore :
                LET request == approvalStore[id] IN
                (request.status = "pending" /\ Age(request) > escalate_after)
                => /\ request.approval_level = "level_1"
                        => approvalStore'[id].approval_level = "level_2"
                   /\ request.approval_level = "level_2"
                        => approvalStore'[id].approval_level = "level_3"
                   /\ request.approval_level = "level_3"
                        => approvalStore'[id] = request]_vars

\* the level a request was created with
CreatedLevel(request) ==
    EvaluateGates(request.gates_triggered, 1, EmptyDecision).approval_level

\* a request created at level_1 stands at level_2, still pending, right after
\* the sweep that escalated it
C6_Witness ==
    /\ lastCall.op = "escalatePendingApprovals"
    /\ \E id \in DOMAIN approvalStore :
          /\ CreatedLevel(approvalStore[id]) = "level_1"
          /\ approvalStore[id].approval_level = "level_2"
          /\ approvalStore[id].escalated_at = now
          /\ approvalStore[id].status = "pending"

----------------------------------------------------------------------------
(* Properties of evaluateApprovalGates *)

Triggered(gates) == {i \in DOMAIN gates : gates[i].triggered}

\* the highest of the levels of the triggered gates, null when none triggered
HighestTriggeredLevel(gates) ==
    IF Triggered(gates) = {} THEN Null
    ELSE LET levels == {gates[i].approval_level : i \in Triggered(gates)}
         IN  CHOOSE l \in levels : \A m \in levels : LevelRank(l) >= LevelRank(m)

Reverse(seq) == [i \in DOMAIN seq |-> seq[Len(seq) + 1 - i]]

Rotate(seq, k) == [i \in DOMAIN seq |-> seq[((i + k - 1) % Len(seq)) + 1]]

\* C7: requires_approval is the OR of the seven triggered flags and
\* approval_level is the highest level among the triggered gates, in
\* whatever order the gates are evaluated.
C7_DecisionIsMaxOfTriggered ==
    lastCall.op = "evaluateApprovalGates" =>
        LET gates == GatesOf(input.playbook, input.hour)
            decision == lastCall.decision
        IN  /\ Len(gates) = 7
            /\ decision.requires_approval = (Triggered(gates) # {})
            /\ decision.approval_level = HighestTriggeredLevel(gates)
            /\ \A k \in 0..Len(gates) :
                 /\ EvaluateGates(Rotate(gates, k), 1, EmptyDecision).approval_level
                        = decision.approval_level
                 /\ EvaluateGates(Reverse(Rotate(gates, k)), 1, EmptyDecision).approval_level
                        = decision.approval_level

\* several level_1 gates triggered while the critical_asset gate, whose
\* default level is level_2, did not: the decision is level_1
C7_Witness ==
    /\ lastCall.op = "evaluateApprovalGates"
    /\ lastCall.decision.approval_level = "level_1"
    /\ Len(lastCall.decision.gates_triggered) >= 2
    /\ ~checkCriticalAssetGate(input.playbook).triggered
    /\ checkCriticalAssetGate(input.playbook).approval_level = "level_2"

\* C8: evaluateApprovalGates creates a request if and only if a gate
\* triggered: none triggered gives auto_approve, no approval id and an
\* unchanged store; otherwise exactly one new pending request is added under
\* a fresh id, expiring max_approval_time after the evaluation, with the
\* roster configured for the computed level.
C8_RequestIffTriggered ==
    [][\A in \in LifecycleInputs \cup {input} :
          ( /\ lastCall'.op = "evaluateApprovalGates"
            /\ evaluateApprovalGates(in.playbook, in.hour) ) =>
            LET gates == GatesOf(in.playbook, in.hour)
                decision == lastCall'.decision
            IN  /\ Triggered(gates) = {} =>
                      /\ decision.auto_approve
                      /\ decision.approval_id = NoId
                      /\ approvalStore' = approvalStore
                /\ Triggered(gates) # {} =>
                      /\ ~decision.auto_approve
                      /\ decision.approval_id \notin DOMAIN approvalStore
                      /\ DOMAIN approvalStore'
                            = DOMAIN approvalStore \cup {decision.approval_id}
                      /\ \A id \in DOMAIN approvalStore :
                            approvalStore'[id] = approvalStore[id]
                      /\ LET request == approvalStore'[decision.approval_id] IN
                            /\ request.status = "pending"
                            /\ request.approval_level = HighestTriggeredLevel(gates)
                            /\ request.expires_at = now + max_approval_time
                            /\ decision.expires_at = request.expires_at
                            /\ request.approvers
                                  = ConfigApprovers[HighestTriggeredLevel(gates)]]_vars

\* a submission that triggers two gates has just created the level_3 request,
\* later than the first instant
C8_Witness ==
    /\ lastCall.op = "evaluateApprovalGates"
    /\ lastCall.decision.requires_approval
    /\ DOMAIN approvalStore = {lastCall.decision.approval_id}
    /\ LET request == approvalStore[lastCall.decision.approval_id] IN
          /\ request.created_at = now
          /\ now > 0
          /\ request.status = "pending"
          /\ request.approval_level = "level_3"

----------------------------------------------------------------------------
(* Version control *)

\* the version was built by createVersion (not copied by a branch, merge or rollback)
MadeByCreateVersion(version) == version.change_description = <<"edit">>

\* C9: when a createVersion call that returned is directly followed by another
\* createVersion call on the same playbook and branch that returns, the second
\* version's patch component is the first's plus one (major and minor kept) and
\* its parent_version is the first version's id; a createVersion on a branch
\* without a head yields "1.0.0" with parent_version null.
C9_SequentialCreateVersion ==
    [][\A call \in CreateInputs :
          (/\ vcLast'.op = "createVersion"
           /\ vcLast'.result = "ok"
           /\ createVersion(call.playbook, "system", call.branch, TRUE))
          => LET new == versions'[vcLast'.version_id]
                 branchKey == BranchKey(call.playbook.playbook_id, call.branch)
             IN  /\ branchKey \notin DOMAIN branches
                    => /\ new.version_number = <<1, 0, 0>>
                       /\ new.parent_version = NoId
                 /\ (/\ vcLast.op = "createVersion"
                     /\ vcLast.result = "ok"
                     /\ versions[vcLast.version_id].playbook_id = new.playbook_id
                     /\ versions[vcLast.version_id].branch = new.branch)
                    => LET first == versions[vcLast.version_id] IN
                       /\ new.version_number[1] = first.version_number[1]
                       /\ new.version_number[2] = first.version_number[2]
                       /\ new.version_number[3] = first.version_number[3] + 1
                       /\ new.parent_version = first.version_id
      ]_vars

C9_Witness ==
    /\ vcLast.op = "createVersion"
    /\ vcLast.result = "ok"
    /\ vcLast.version_id \in DOMAIN versions
    /\ LET second == versions[vcLast.version_id] IN
       /\ MadeByCreateVersion(second)
       /\ second.parent_version \in DOMAIN versions
       /\ MadeByCreateVersion(versions[second.parent_version])
       /\ versions[second.parent_version].version_number = <<1, 0, 0>>
       /\ versions[second.parent_version].parent_version = NoId
       /\ second.version_number = <<1, 0, 1>>

\* C10: in every reachable state every branch pointer references a version that
\* is in the version store and whose playbook_id and branch give the pointer's
\* key, whatever createVersion, createBranch, mergeBranch, rollbackToVersion,
\* cleanupOldVersions and loadVersions calls came before.
C10_BranchPointersValid ==
    \A branchKey \in DOMAIN branches :
        /\ branches[branchKey] \in DOMAIN versions
        /\ BranchKey(versions[branches[branchKey]].playbook_id,
                     versions[branches[branchKey]].branch) = branchKey

C10_Witness ==
    /\ DOMAIN branches # {}
    /\ DOMAIN disk # {}
    /\ vcLast.op = "loadVersions"
    /\ \E i \in DOMAIN auditTrail :
          /\ auditTrail[i].action = "cleanup_versions"
          /\ auditTrail[i].deleted_count > 0

\* the canonical serialization of a snapshot: every member, keys sorted at each depth
RECURSIVE CanonicalMembers(_, _, _)
CanonicalMembers(obj, keys, i) ==
    IF i > Len(keys) THEN <<>>
    ELSE (IF i = 1 THEN <<>> ELSE <<",">>)
         \o Quoted(<<keys[i]>>) \o <<":">>
         \o (IF keys[i] \in ObjectValued
             THEN <<"{">> \o CanonicalMembers(obj[keys[i]], SortedKeys(obj[keys[i]]), 1)
                  \o <<"}">>
             ELSE Quoted(obj[keys[i]]))
         \o CanonicalMembers(obj, keys, i + 1)

CanonicalSerialization(obj) ==
    <<"{">> \o CanonicalMembers(obj, SortedKeys(obj), 1) \o <<"}">>

\* C11: the checksum of every stored version, however the version was created,
\* is the hash of the canonical serialization of the version's own
\* playbook_snapshot.
C11_ChecksumOfSnapshot ==
    \A id \in DOMAIN versions :
        versions[id].checksum
            = Sha256(CanonicalSerialization(versions[id].playbook_snapshot))

\* C12: a stored version never changes: while its version_id is in the store
\* every field keeps its value; only cleanupOldVersions removes versions from
\* the store of a running engine (a restart begins with an empty store), and
\* createBranch, mergeBranch and rollbackToVersion only add a version.
C12_StoredVersionsImmutable ==
    [][/\ \A id \in DOMAIN versions \cap DOMAIN versions' :
             versions'[id] = versions[id]
       /\ (DOMAIN versions \ DOMAIN versions' # {})
             => (vcLast'.op = "cleanupOldVersions" \/ Restart)
       /\ vcLast'.op \in {"createBranch", "mergeBranch", "rollbackToVersion"}
             => /\ DOMAIN versions \subseteq DOMAIN versions'
                /\ DOMAIN versions' \ DOMAIN versions \subseteq {vcLast'.version_id}
      ]_vars

\* a rollback has just returned and the version it rolled back to, with the
\* snapshot and checksum it shares, is still stored
C12_Witness ==
    /\ vcLast.op = "rollbackToVersion"
    /\ vcLast.result = "ok"
    /\ LET new == versions[vcLast.version_id] IN
          /\ new.rollback_from \in DOMAIN versions
          /\ new.rollback_from # new.version_id
          /\ versions[new.rollback_from].playbook_snapshot = new.playbook_snapshot
          /\ versions[new.rollback_from].rollback_from = UndefinedId

VersionsBranchesAuditUnchanged ==
    /\ versions' = versions
    /\ versionOrder' = versionOrder
    /\ branches' = branches
    /\ auditTrail' = auditTrail

\* C13 as stated: createBranch with a branch name that already exists for the
\* playbook fails as Conflict and leaves the branch pointers, the version
\* store and the audit log unchanged, whatever source version is named.
C13_ExistingBranchIsConflict ==
    [][\A playbookId \in PlaybookIds, branchName \in BranchNames,
          fromVersionId \in 1..MaxVersions :
          ( /\ vcLast'.op = "createBranch"
            /\ BranchKey(playbookId, branchName) \in DOMAIN branches
            /\ createBranch(playbookId, branchName, fromVersionId, "system", TRUE) )
          => /\ vcLast'.result = "Conflict"
             /\ VersionsBranchesAuditUnchanged]_vars

\* C13 amended: createBranch with a branch name that already exists for the
\* playbook and a source version that exists and belongs to the playbook fails
\* as Conflict; with an existing branch name it fails in every case (NotFound
\* or ValidationError when the source version is missing or foreign) and
\* leaves the branch pointers, the version store and the audit log unchanged.
C13_ExistingBranchFails ==
    [][\A playbookId \in PlaybookIds, branchName \in BranchNames,
          fromVersionId \in 1..MaxVersions :
          ( /\ vcLast'.op = "createBranch"
            /\ BranchKey(playbookId, branchName) \in DOMAIN branches
            /\ createBranch(playbookId, branchName, fromVersionId, "system", TRUE) )
          => /\ vcLast'.result \in {"Conflict", "NotFound", "ValidationError"}
             /\ (fromVersionId \in DOMAIN versions
                 /\ versions[fromVersionId].playbook_id = playbookId)
                   => vcLast'.result = "Conflict"
             /\ VersionsBranchesAuditUnchanged]_vars

\* createBranch has just failed as Conflict while the branch pointer and the
\* audit entries of the earlier calls are in place
C13_Witness ==
    /\ vcLast.op = "createBranch"
    /\ vcLast.result = "Conflict"
    /\ DOMAIN branches # {}
    /\ auditTrail # <<>>

\* C14: when mergeBranch(p, source, target) with source # target returns, the
\* pointer of (p, source) is gone and the head of (p, target) carries the
\* snapshot that the head of source had right before the call.
C14_MergeSourceWins ==
    [][\A playbookId \in PlaybookIds, sourceBranch \in BranchNames,
          targetBranch \in BranchNames :
          ( /\ vcLast'.op = "mergeBranch"
            /\ vcLast'.result = "ok"
            /\ sourceBranch # targetBranch
            /\ mergeBranch(playbookId, sourceBranch, targetBranch, "system", TRUE) )
          => LET sourceKey == BranchKey(playbookId, sourceBranch)
                 targetKey == BranchKey(playbookId, targetBranch)
             IN  /\ sourceKey \notin DOMAIN branches'
                 /\ targetKey \in DOMAIN branches'
                 /\ branches'[targetKey] \in DOMAIN versions'
                 /\ versions'[branches'[targetKey]].playbook_snapshot
                        = versions[branches[sourceKey]].playbook_snapshot]_vars

\* a merge has just returned whose target had a head with another snapshot
C14_Witness ==
    /\ vcLast.op = "mergeBranch"
    /\ vcLast.result = "ok"
    /\ LET merged == versions[vcLast.version_id] IN
          /\ merged.parent_version \in DOMAIN versions
          /\ merged.merge_source \in DOMAIN versions
          /\ versions[merged.parent_version].playbook_snapshot # merged.playbook_snapshot
          /\ versions[merged.merge_source].playbook_snapshot = merged.playbook_snapshot
          /\ versions[merged.merge_source].branch # merged.branch
          /\ BranchKey(merged.playbook_id, versions[merged.merge_source].branch)
                \notin DOMAIN branches

VersionsOf(store, playbookId) ==
    {id \in DOMAIN store : store[id].playbook_id = playbookId}

\* C15: when rollbackToVersion(p, targetId) returns, the head of the target
\* version's branch is a new version whose snapshot is the target's, p has
\* exactly one version more, and every version stored before the call is
\* still stored with the same fields.
C15_RollbackAppends ==
    [][\A playbookId \in PlaybookIds, versionId \in 1..MaxOpVersions :
          ( /\ vcLast'.op = "rollbackToVersion"
            /\ vcLast'.result = "ok"
            /\ rollbackToVersion(playbookId, versionId, "system", TRUE) )
          => LET target == versions[versionId]
                 branchKey == BranchKey(playbookId, target.branch)
             IN  /\ branchKey \in DOMAIN branches'
                 /\ branches'[branchKey] \notin DOMAIN versions
                 /\ branches'[branchKey] \in DOMAIN versions'
                 /\ versions'[branches'[branchKey]].playbook_snapshot
                        = target.playbook_snapshot
                 /\ Cardinality(VersionsOf(versions', playbookId))
                        = Cardinality(VersionsOf(versions, playbookId)) + 1
                 /\ \A id \in DOMAIN versions :
                        id \in DOMAIN versions' /\ versions'[id] = versions[id]]_vars

\* a rollback has just returned to a version that was not the head: the
\* target and the previous head are both still stored
C15_Witness ==
    /\ vcLast.op = "rollbackToVersion"
    /\ vcLast.result = "ok"
    /\ LET new == versions[vcLast.version_id] IN
          /\ new.rollback_from \in DOMAIN versions
          /\ new.parent_version \in DOMAIN versions
          /\ new.parent_version # new.rollback_from
          /\ versions[new.parent_version].playbook_snapshot # new.playbook_snapshot
          /\ branches[BranchKey(new.playbook_id, new.branch)] = new.version_id

\* no step of a running engine changes or removes a tag
TagsKept ==
    \A tagKey \in DOMAIN tags :
        Restart \/ (tagKey \in DOMAIN tags' /\ tags'[tagKey] = tags[tagKey])

\* C16 as stated: a createTag for a (playbook_id, tag_name) pair that already
\* has a tag fails as Conflict, whatever version is named, and leaves the tags
\* and the audit log unchanged; no operation changes or removes a tag.
C16_SecondTagIsConflict ==
    [][/\ \A playbookId \in PlaybookIds, tagName \in TagNames,
            versionId \in 1..MaxVersions :
            ( /\ vcLast'.op = "createTag"
              /\ TagKey(playbookId, tagName) \in DOMAIN tags
              /\ createTag(playbookId, tagName, versionId, "system") )
            => /\ vcLast'.result = "Conflict"
               /\ tags' = tags
               /\ auditTrail' = auditTrail
       /\ TagsKept]_vars

\* C16 amended: a createTag for a pair that already has a tag always fails and
\* leaves the tags and the audit log unchanged; it fails as Conflict when the
\* named version exists and belongs to the playbook, as NotFound or
\* ValidationError when it does not.  No operation of a running engine changes
\* or removes a tag.
C16_TagsImmutable ==
    [][/\ \A playbookId \in PlaybookIds, tagName \in TagNames,
            versionId \in 1..MaxVersions :
            ( /\ vcLast'.op = "createTag"
              /\ TagKey(playbookId, tagName) \in DOMAIN tags
              /\ createTag(playbookId, tagName, versionId, "system") )
            => /\ vcLast'.result \in {"Conflict", "NotFound", "ValidationError"}
               /\ (versionId \in DOMAIN versions
                   /\ versions[versionId].playbook_id = playbookId)
                     => vcLast'.result = "Conflict"
               /\ tags' = tags
               /\ auditTrail' = auditTrail
       /\ TagsKept]_vars

\* a second createTag, naming another version of the playbook at a later
\* time, has just failed as Conflict
C16_Witness ==
    /\ vcLast.op = "createTag"
    /\ vcLast.result = "Conflict"
    /\ \E tagKey \in DOMAIN tags :
          /\ tags[tagKey].created_at < now
          /\ \E id \in DOMAIN versions :
                /\ id # tags[tagKey].version_id
                /\ versions[id].playbook_id = tags[tagKey].playbook_id

\* the versions of the playbook, other than id, created at or after (strictly
\* after, when strict) the version id
NewerVersions(playbookId, id, strict) ==
    {other \in VersionsOf(versions, playbookId) \ {id} :
        IF strict THEN versions[other].created_at > versions[id].created_at
        ELSE versions[other].created_at >= versions[id].created_at}

\* C17: cleanupOldVersions(p, keepCount) deletes no version that is tagged or
\* is the head of a branch and none of the keepCount most recent versions of p
\* (by created_at); it deletes every other version of p, and it leaves the
\* versions of other playbooks, and every version it keeps, as they were.
C17_CleanupRetention ==
    [][\A playbookId \in PlaybookIds, keepCount \in KeepCounts :
          ( /\ vcLast'.op = "cleanupOldVersions"
            /\ cleanupOldVersions(playbookId, keepCount) )
          => /\ DOMAIN versions' \subseteq DOMAIN versions
             /\ \A id \in DOMAIN versions' : versions'[id] = versions[id]
             /\ \A id \in DOMAIN versions \ DOMAIN versions' :
                   /\ versions[id].playbook_id = playbookId
                   /\ ~\E tagKey \in DOMAIN tags : tags[tagKey].version_id = id
                   /\ ~\E branchKey \in DOMAIN branches : branches[branchKey] = id
                   /\ Cardinality(NewerVersions(playbookId, id, FALSE)) >= keepCount
             /\ \A id \in VersionsOf(versions, playbookId) :
                   ( /\ ~\E tagKey \in DOMAIN tags : tags[tagKey].version_id = id
                     /\ ~\E branchKey \in DOMAIN branches : branches[branchKey] = id
                     /\ Cardinality(NewerVersions(playbookId, id, TRUE)) >= keepCount )
                   => id \notin DOMAIN versions'
             /\ tags' = tags
             /\ branches' = branches]_vars

\* a cleanup has just deleted a version of a playbook and kept a tagged
\* version of the same playbook
C17_Witness ==
    /\ vcLast.op = "cleanupOldVersions"
    /\ auditTrail # <<>>
    /\ auditTrail[Len(auditTrail)].action = "cleanup_versions"
    /\ auditTrail[Len(auditTrail)].deleted_count > 0
    /\ \E tagKey \in DOMAIN tags :
          /\ tags[tagKey].version_id \in DOMAIN versions
          /\ tags[tagKey].playbook_id = auditTrail[Len(auditTrail)].playbook_id

\* C18: createVersion writes the version record to durable storage before it
\* updates the in-memory branch pointer and appends the audit entry last, so
\* that at no moment does a branch pointer reference a version that is not
\* persisted.
C18_PointersReferToPersistedVersions ==
    \A branchKey \in DOMAIN branches : branches[branchKey] \in DOMAIN disk

\* C19: version creation is all-or-nothing: a createVersion call that fails,
\* a failure of the durable write included, leaves the version store, the
\* branch pointers and the audit log exactly as they were before the call.
C19_CreateVersionAllOrNothing ==
    [][( /\ vcLast'.op = "createVersion"
         /\ vcLast'.result # "ok"
         /\ \E call \in CreateInputs, author \in Authors, persistOk \in BOOLEAN :
               createVersion(call.playbook, author, call.branch, persistOk) )
       => /\ versions' = versions
          /\ branches' = branches
          /\ auditTrail' = auditTrail]_vars

\* the persisted versions of one (playbook_id, branch) pair
PersistedOn(branchKey) ==
    {id \in DOMAIN disk : BranchKey(disk[id].playbook_id, disk[id].branch) = branchKey}

\* C20: on restart, a loadVersions that reads every version file leaves, for
\* each (playbook_id, branch) with a persisted version, a branch pointer to the
\* persisted version with the most recent created_at, whatever the order in
\* which the files are read.
C20_LoadSelectsMostRecent ==
    [][( /\ versions = <<>>
         /\ branches = <<>>
         /\ vcLast'.op = "loadVersions"
         /\ DOMAIN versions' = DOMAIN disk )
       => \A id \in DOMAIN disk :
             LET branchKey == BranchKey(disk[id].playbook_id, disk[id].branch) IN
             /\ branchKey \in DOMAIN branches'
             /\ branches'[branchKey] \in PersistedOn(branchKey)
             /\ \A other \in PersistedOn(branchKey) :
                   disk[branches'[branchKey]].created_at >= disk[other].created_at]_vars

\* the stored versions of one (playbook_id, branch) pair, in the order stored
StoredOn(branchKey) ==
    SelectSeq(versionOrder,
        LAMBDA id : BranchKey(versions[id].playbook_id, versions[id].branch) = branchKey)

\* C21: writes are serialized per (playbook_id, branch): when createVersion
\* and rollbackToVersion calls on the same playbook and branch are in flight
\* together no update is lost: the versions of the branch have different
\* version_numbers, each has the one stored before it as parent_version, and
\* the head is the one stored last.
C21_WritesSerializedPerBranch ==
    \A branchKey \in DOMAIN branches :
        LET chain == StoredOn(branchKey) IN
        /\ branches[branchKey] = chain[Len(chain)]
        /\ \A i \in 2..Len(chain) :
              versions[chain[i]].parent_version = chain[i - 1]
        /\ \A i, j \in 1..Len(chain) :
              i # j => versions[chain[i]].version_number
                          # versions[chain[j]].version_number

\* C22: createVersion with a playbook that has no playbook_id fails with
\* ValidationError: it stores no version, registers no branch pointer (none
\* under an undefined playbook key either) and appends no audit entry.
C22_MissingPlaybookIdRejected ==
    [][\A call \in NoIdInputs, author \in Authors :
          ( /\ vcLast'.op = "createVersion"
            /\ createVersion(call.playbook, author, call.branch, TRUE) )
          => /\ vcLast'.result = "ValidationError"
             /\ versions' = versions
             /\ branches' = branches
             /\ auditTrail' = auditTrail]_vars

C24_ErrorKindsDistinguishable ==
    [][( /\ vcLast.result \in ErrorKinds
         /\ vcLast'.result \in ErrorKinds
         /\ vcLast'.result # vcLast.result )
       => routeStatus(vcLast'.result) # routeStatus(vcLast.result)]_vars

\* the keys of a list of change entries
ChangedKeys(entries) == {entries[i].key : i \in DOMAIN entries}

\* the diff has the three key sets the claim describes for the objects A and B
IsStructuralDiff(diff, A, B) ==
    /\ ChangedKeys(diff.added) = DOMAIN B \ DOMAIN A
    /\ ChangedKeys(diff.removed) = DOMAIN A \ DOMAIN B
    /\ ChangedKeys(diff.modified) = {key \in DOMAIN A \cap DOMAIN B : A[key] # B[key]}
    /\ ChangedKeys(diff.added) \cap ChangedKeys(diff.removed) = {}
    /\ ChangedKeys(diff.added) \cap ChangedKeys(diff.modified) = {}
    /\ ChangedKeys(diff.removed) \cap ChangedKeys(diff.modified) = {}
    /\ Len(diff.added) = Cardinality(ChangedKeys(diff.added))
    /\ Len(diff.removed) = Cardinality(ChangedKeys(diff.removed))
    /\ Len(diff.modified) = Cardinality(ChangedKeys(diff.modified))

\* C25: compareVersions(v, v) returns empty added, removed and modified lists
\* for the snapshot diff and for the metadata diff; for any two versions A and
\* B the three key sets are pairwise disjoint, added being the keys only in B,
\* removed the keys only in A and modified the shared keys whose values differ.
C25_CompareIsStructuralDiff ==
    ( /\ vcLast.op = "compareVersions"
      /\ vcLast.result = "ok" )
    => LET c == vcLast.comparison
           A == versions[c.version1]
           B == versions[c.version2]
       IN  /\ IsStructuralDiff(c.changes, A.playbook_snapshot, B.playbook_snapshot)
           /\ IsStructuralDiff(c.metadata_changes, A.metadata, B.metadata)
           /\ c.version1 = c.version2
                => /\ c.changes = [added |-> <<>>, removed |-> <<>>, modified |-> <<>>]
                   /\ c.metadata_changes
                        = [added |-> <<>>, removed |-> <<>>, modified |-> <<>>]

\* two different versions have just been compared: a key was added and a
\* shared key modified
C25_Witness ==
    /\ vcLast.op = "compareVersions"
    /\ vcLast.result = "ok"
    /\ vcLast.comparison.version1 # vcLast.comparison.version2
    /\ vcLast.comparison.changes.added # <<>>
    /\ vcLast.comparison.changes.modified # <<>>
    /\ vcLast.comparison.metadata_changes.modified # <<>>

\* C26: version numbers are patch-incremented per branch under every
\* operation: whenever createVersion, mergeBranch or rollbackToVersion adds a
\* version to a branch that already has a head, the new version's patch
\* component is the previous head's patch plus one, so that no two versions
\* on the same branch of a playbook share a version_number.
C26_PatchIncrementedPerBranch ==
    [][( /\ vcLast'.op \in {"createVersion", "mergeBranch", "rollbackToVersion"}
         /\ vcLast'.result = "ok"
         /\ vcLast'.version_id \in DOMAIN versions' \ DOMAIN versions )
       => LET new == versions'[vcLast'.version_id]
              branchKey == BranchKey(new.playbook_id, new.branch)
          IN  /\ branchKey \in DOMAIN branches
                 => LET head == versions[branches[branchKey]] IN
                    /\ new.version_number[1] = head.version_number[1]
                    /\ new.version_number[2] = head.version_number[2]
                    /\ new.version_number[3] = head.version_number[3] + 1
              /\ \A id \in DOMAIN versions :
                    ( /\ versions[id].playbook_id = new.playbook_id
                      /\ versions[id].branch = new.branch )
                    => versions[id].version_number # new.version_number]_vars

\* C27: after every successful mergeBranch(p, source, target), for every
\* choice of source and target (source equal to target and a target without
\* a prior head included), the branch pointer (p, target) exists and refers
\* to the new merge version, whose parent_version is the target's head
\* before the call and whose merge_source is the source's head before the call.
C27_MergePointsTargetAtMergeVersion ==
    [][\A playbookId \in PlaybookIds, sourceBranch \in BranchNames,
          targetBranch \in BranchNames :
          ( /\ vcLast'.op = "mergeBranch"
            /\ vcLast'.result = "ok"
            /\ mergeBranch(playbookId, sourceBranch, targetBranch, "system", TRUE) )
          => LET sourceKey == BranchKey(playbookId, sourceBranch)
                 targetKey == BranchKey(playbookId, targetBranch)
                 merged == versions'[vcLast'.version_id]
             IN  /\ targetKey \in DOMAIN branches'
                 /\ branches'[targetKey] = vcLast'.version_id
                 /\ vcLast'.version_id \notin DOMAIN versions
                 /\ merged.merge_source = branches[sourceKey]
                 /\ targetKey \in DOMAIN branches
                       => merged.parent_version = branches[targetKey]]_vars

\* C28: rollbackToVersion(p, v) creates the new version on v's branch with
\* version_number equal to that branch's current head number patch-incremented,
\* parent_version equal to that branch's current head and rollback_from = v,
\* for every stored v of p: also when v is not the head and when the pointer of
\* v's branch was removed by an earlier merge.
C28_RollbackContinuesBranch ==
    [][\A playbookId \in PlaybookIds, versionId \in 1..MaxOpVersions :
          ( /\ vcLast'.op = "rollbackToVersion"
            /\ vcLast'.result = "ok"
            /\ rollbackToVersion(playbookId, versionId, "system", TRUE) )
          => LET new == versions'[vcLast'.version_id]
                 branchKey == BranchKey(playbookId, versions[versionId].branch)
             IN  /\ new.branch = versions[versionId].branch
                 /\ new.rollback_from = versionId
                 /\ branchKey \in DOMAIN branches
                 /\ new.parent_version = branches[branchKey]
                 /\ new.version_number
                      = [versions[branches[branchKey]].version_number EXCEPT
                            ![3] = versions[branches[branchKey]].version_number[3] + 1]]_vars

\* C29: a successful createBranch(p, name, fromVersionId) adds exactly one
\* version, carrying the source version's snapshot, assigned to branch name
\* with parent_version = fromVersionId, registers (p, name) pointing at it and
\* leaves every other branch pointer (that of the source version's branch
\* included) unchanged; it fails without any state change if fromVersionId
\* does not exist or belongs to another playbook.
C29_CreateBranchFrame ==
    [][\A playbookId \in PlaybookIds, branchName \in BranchNames,
          fromVersionId \in 1..MaxOpVersions :
          ( /\ vcLast'.op = "createBranch"
            /\ createBranch(playbookId, branchName, fromVersionId, "system", TRUE) )
          => LET branchKey == BranchKey(playbookId, branchName) IN
             /\ vcLast'.result = "ok"
                => LET new == versions'[vcLast'.version_id] IN
                   /\ DOMAIN versions' = DOMAIN versions \cup {vcLast'.version_id}
                   /\ vcLast'.version_id \notin DOMAIN versions
                   /\ \A id \in DOMAIN versions : versions'[id] = versions[id]
                   /\ new.playbook_snapshot = versions[fromVersionId].playbook_snapshot
                   /\ new.playbook_id = playbookId
                   /\ new.branch = branchName
                   /\ new.parent_version = fromVersionId
                   /\ branchKey \notin DOMAIN branches
                   /\ DOMAIN branches' = DOMAIN branches \cup {branchKey}
                   /\ branches'[branchKey] = vcLast'.version_id
                   /\ \A other \in DOMAIN branches : branches'[other] = branches[other]
             /\ ( \/ fromVersionId \notin DOMAIN versions
                  \/ versions[fromVersionId].playbook_id # playbookId )
                => /\ vcLast'.result \in {"NotFound", "ValidationError"}
                   /\ UNCHANGED <<versions, versionOrder, branches, tags, auditTrail,
                                  disk, nextVersionId>>]_vars

\* a branch has just been created from a version whose own branch keeps its head
C29_Witness ==
    /\ vcLast.op = "createBranch"
    /\ vcLast.result = "ok"
    /\ LET new == versions[vcLast.version_id]
           from == versions[new.parent_version]
       IN  /\ from.branch # new.branch
           /\ BranchKey(from.playbook_id, from.branch) \in DOMAIN branches
           /\ branches[BranchKey(new.playbook_id, new.branch)] = new.version_id

\* C30: escalatePendingApprovals changes only the approval_level, the
\* approvers roster and the escalation timestamp of pending requests older
\* than escalate_after; it leaves their status, created_at and expires_at as
\* they were, and leaves terminal requests, younger pending requests and
\* pending level_3 requests entirely unchanged.
C30_EscalationFrame ==
    [][(lastCall'.op = "escalatePendingApprovals" /\ escalatePendingApprovals)
       => /\ DOMAIN approvalStore' = DOMAIN approvalStore
          /\ approvalHistory' = approvalHistory
          /\ \A id \in DOMAIN approvalStore :
                LET request == approvalStore[id]
                    after == approvalStore'[id]
                IN  /\ [after EXCEPT !.approval_level = request.approval_level,
                                     !.approvers = request.approvers,
                                     !.escalated_at = request.escalated_at] = request
                    /\ after.status = request.status
                    /\ after.created_at = request.created_at
                    /\ after.expires_at = request.expires_at
                    /\ ( \/ request.status # "pending"
                         \/ Age(request) <= escalate_after
                         \/ request.approval_level = "level_3" )
                       => after = request]_vars

\* a sweep has just escalated a pending request, whose expires_at is still
\* the one computed at creation
C30_Witness ==
    /\ lastCall.op = "escalatePendingApprovals"
    /\ \E id \in DOMAIN approvalStore :
          /\ approvalStore[id].status = "pending"
          /\ approvalStore[id].escalated_at = now
          /\ approvalStore[id].expires_at = calculateExpirationTime(approvalStore[id].created_at)

\* C31: in every reachable state the approvers roster stored on a request is
\* the roster configured for the request's current approval_level, so that
\* the authorization check of approveRequest and rejectRequest agrees with
\* membership in the request's own approvers list: a call on a pending request
\* succeeds exactly when the approver is in that list, and after an escalation
\* a member of the previous level's roster only is refused as Unauthorized.
C31_RosterMatchesLevel ==
    [][/\ \A id \in DOMAIN approvalStore' :
             approvalStore'[id].approvers
                = ConfigApprovers[approvalStore'[id].approval_level]
       /\ \A id \in DOMAIN approvalStore, approver \in Users :
             ( /\ lastCall'.op \in {"approveRequest", "rejectRequest"}
               /\ approvalStore[id].status = "pending"
               /\ \/ \E comments \in Comments : approveRequest(id, approver, comments)
                  \/ \E reason \in Reasons : rejectRequest(id, approver, reason) )
             => /\ lastCall'.result = "ok"
                   <=> approver \in Range(approvalStore[id].approvers)
                /\ lastCall'.result = "Unauthorized"
                   <=> approver \notin Range(approvalStore[id].approvers)]_vars

\* an approve or reject has just been refused as Unauthorized on a pending
\* request that was escalated from level_1 to level_2
C31_Witness ==
    /\ lastCall.op \in {"approveRequest", "rejectRequest"}
    /\ lastCall.result = "Unauthorized"
    /\ lastCall.approval_id \in DOMAIN approvalStore
    /\ LET request == approvalStore[lastCall.approval_id] IN
       /\ request.status = "pending"
       /\ request.escalated_at # NoTime
       /\ CreatedLevel(request) = "level_1"
       /\ request.approval_level = "level_2"
       /\ request.approvers = ConfigApprovers["level_2"]

\* the history entries written for one request
HistoryOf(id) ==
    SelectSeq(approvalHistory, LAMBDA entry : entry.approval_id = id)

\* C32: terminal fields are set only by the terminal transition: a pending or
\* expired request has neither approved_by nor rejected_by; an approved
\* request has approved_by in the roster of its approval_level and no
\* rejected_by; a rejected request has rejected_by in that roster and no
\* approved_by; the history holds exactly one entry for each approved or
\* rejected request and none for a pending or expired one.
C32_TerminalFields ==
    /\ \A i \in DOMAIN approvalHistory :
          approvalHistory[i].approval_id \in DOMAIN approvalStore
    /\ \A id \in DOMAIN approvalStore :
          LET request == approvalStore[id]
              roster == Range(ConfigApprovers[request.approval_level])
          IN  /\ request.status \in {"pending", "expired"}
                 => /\ request.approved_by = Undefined
                    /\ request.rejected_by = Undefined
                    /\ HistoryOf(id) = <<>>
              /\ request.status = "approved"
                 => /\ request.approved_by \in roster
                    /\ request.rejected_by = Undefined
                    /\ Len(HistoryOf(id)) = 1
                    /\ HistoryOf(id)[1].action = "approve"
                    /\ HistoryOf(id)[1].approver = request.approved_by
              /\ request.status = "rejected"
                 => /\ request.rejected_by \in roster
                    /\ request.approved_by = Undefined
                    /\ Len(HistoryOf(id)) = 1
                    /\ HistoryOf(id)[1].action = "reject"
                    /\ HistoryOf(id)[1].approver = request.rejected_by

\* the store holds a request that was approved, after an escalation, by a
\* member of the roster of the level it had reached
C32_Witness ==
    /\ \E id \in DOMAIN approvalStore :
          /\ approvalStore[id].status = "approved"
          /\ approvalStore[id].escalated_at # NoTime
          /\ approvalStore[id].approved_by \in Roster(approvalStore[id])

\* C33: approval transitions on one approval_id are atomic: when approveRequest
\* and rejectRequest (or two approveRequest calls by different members of the
\* roster) are issued together on the same pending request, exactly one
\* succeeds and the other fails as InvalidState; the request never ends with
\* both approved_by and rejected_by set and its history gets exactly one entry.
\* Neither function contains an await, so two calls issued together run one
\* after the other: the step below is the second of the two calls.
C33_TransitionsAtomic ==
    [][\A id \in DOMAIN approvalStore, approver \in Users :
          ( /\ lastCall.op \in {"approveRequest", "rejectRequest"}
            /\ lastCall.result = "ok"
            /\ lastCall.approval_id = id
            /\ isValidApprover(approver, approvalStore[id].approval_level)
            /\ lastCall'.op \in {"approveRequest", "rejectRequest"}
            /\ \/ \E comments \in Comments : approveRequest(id, approver, comments)
               \/ \E reason \in Reasons : rejectRequest(id, approver, reason) )
          => /\ lastCall'.result = "InvalidState"
             /\ approvalStore' = approvalStore
             /\ approvalHistory' = approvalHistory
             /\ Len(HistoryOf(id)) = 1
             /\ \/ approvalStore[id].approved_by = Undefined
                \/ approvalStore[id].rejected_by = Undefined]_vars

\* the second of two calls on one request has just failed as InvalidState in
\* the instant in which the first approved or rejected it
C33_Witness ==
    /\ lastCall.op \in {"approveRequest", "rejectRequest"}
    /\ lastCall.result = "InvalidState"
    /\ lastCall.approval_id \in DOMAIN approvalStore
    /\ LET request == approvalStore[lastCall.approval_id] IN
       \/ request.status = "approved" /\ request.approved_at = now
       \/ request.status = "rejected" /\ request.rejected_at = now

\* C34: expiry takes effect only through the sweep: approveRequest and
\* rejectRequest do not consult expires_at, so a pending request whose
\* expires_at has already passed is still approved or rejected successfully by
\* a roster member until checkExpiredApprovals has run; once approved this way
\* it is never turned into expired by a later sweep.
C34_ExpiryOnlyThroughSweep ==
    [][\A id \in DOMAIN approvalStore :
          LET request == approvalStore[id] IN
          /\ \A approver \in Users :
               ( /\ request.status = "pending"
                 /\ request.expires_at < now
                 /\ isValidApprover(approver, request.approval_level) )
               => /\ (\E comments \in Comments : approveRequest(id, approver, comments))
                     => /\ lastCall'.result = "ok"
                        /\ approvalStore'[id].status = "approved"
                        /\ approvalStore'[id].approved_at = now
                  /\ (\E reason \in Reasons : rejectRequest(id, approver, reason))
                     => /\ lastCall'.result = "ok"
                        /\ approvalStore'[id].status = "rejected"
          /\ ( /\ request.status = "approved"
               /\ request.expires_at < request.approved_at )
             => approvalStore'[id] = request]_vars

\* a request approved after its expires_at had passed is still approved after
\* a later run of the sweep
C34_Witness ==
    /\ lastCall.op = "checkExpiredApprovals"
    /\ \E id \in DOMAIN approvalStore :
          /\ approvalStore[id].status = "approved"
          /\ approvalStore[id].expires_at < approvalStore[id].approved_at
          /\ approvalStore[id].expired_at = NoTime

\* ---- the approval lifecycle with time that keeps advancing ----

\* the last instant of the clock
LastInstant == Instants[Len(Instants)]

\* a request is created only while the clock can still pass its expires_at
CanOutliveExpiry == calculateExpirationTime(now) < LastInstant

NextLive ==
    \/ /\ CanOutliveExpiry
       /\ \E in \in LifecycleInputs : evaluateApprovalGates(in.playbook, in.hour)
    \/ \E id \in 1..MaxRequests, approver \in Users, comments \in Comments :
            approveRequest(id, approver, comments)
    \/ \E id \in 1..MaxRequests, approver \in Users, reason \in Reasons \cup {NoText} :
            postReject(id, approver, reason)
    \/ checkExpiredApprovals
    \/ escalatePendingApprovals
    \/ Tick

\* time keeps advancing and the sweep is invoked again and again by its caller
SpecLive ==
    /\ Init
    /\ [][NextLive]_vars
    /\ WF_vars(Tick)
    /\ WF_vars(checkExpiredApprovals)

IsTerminal(request) == request.status \in {"approved", "rejected", "expired"}

\* C35: if time keeps advancing and checkExpiredApprovals is invoked infinitely
\* often, every approval request eventually reaches a terminal status
\* (approved, rejected or expired); no pending request survives forever, and
\* escalation never postpones expiry: expires_at stays created_at plus the
\* maximum approval time.
C35_EveryRequestTerminates ==
    \A id \in 1..MaxRequests :
       /\ [](id \in DOMAIN approvalStore
               => approvalStore[id].expires_at
                    = approvalStore[id].created_at + max_approval_time)
       /\ (id \in DOMAIN approvalStore)
            ~> (id \in DOMAIN approvalStore /\ IsTerminal(approvalStore[id]))

\* a request that was escalated has expired at its original expires_at
C35_Witness ==
    \E id \in DOMAIN approvalStore :
       /\ approvalStore[id].status = "expired"
       /\ approvalStore[id].escalated_at # NoTime
       /\ approvalStore[id].expired_at > approvalStore[id].expires_at
       /\ approvalStore[id].expires_at
            = approvalStore[id].created_at + max_approval_time

\* C36: escalation eligibility is measured from created_at, not from the last
\* escalation: once a pending request is older than the escalate-after
\* duration, every subsequent escalatePendingApprovals call advances it by one
\* more level until level_3, so two sweeps in immediate succession take a
\* level_1 request to level_3.
C36_EscalationFromCreation ==
    [][\A id \in DOMAIN approvalStore :
          LET request == approvalStore[id] IN
          ( /\ request.status = "pending"
            /\ now - request.created_at > escalate_after
            /\ escalatePendingApprovals )
          => /\ request.approval_level = "level_1"
                  => approvalStore'[id].approval_level = "level_2"
             /\ request.approval_level = "level_2"
                  => approvalStore'[id].approval_level = "level_3"
             /\ request.approval_level = "level_3"
                  => approvalStore'[id] = request
             /\ request.approval_level # "level_3"
                  => approvalStore'[id].escalated_at = now
             /\ approvalStore'[id].status = "pending"]_vars

\* a request created at level_1 has been taken to level_3 by two sweeps in the
\* first instant in which it was old enough
C36_Witness ==
    /\ lastCall.op = "escalatePendingApprovals"
    /\ \E id \in DOMAIN approvalStore :
          LET request == approvalStore[id] IN
          /\ CreatedLevel(request) = "level_1"
          /\ request.approval_level = "level_3"
          /\ request.status = "pending"
          /\ request.escalated_at = now
          /\ \A i \in 1..Len(Instants) :
                (Instants[i] < now) => ~(Instants[i] - request.created_at > escalate_after)

\* the step appends one entry with this action and keeps the earlier entries
AuditAppended(action) ==
    /\ Len(auditTrail') = Len(auditTrail) + 1
    /\ SubSeq(auditTrail', 1, Len(auditTrail)) = auditTrail
    /\ auditTrail'[Len(auditTrail')].action = action

\* the step keeps every earlier entry as it was, or trims the oldest entries
\* of a trail that has reached its limit
AuditKept ==
    \/ /\ Len(auditTrail') >= Len(auditTrail)
       /\ SubSeq(auditTrail', 1, Len(auditTrail)) = auditTrail
    \/ /\ Len(auditTrail) >= AuditLimit
       /\ Len(auditTrail') = AuditKeep
       /\ SubSeq(auditTrail', 1, AuditKeep - 1)
            = SubSeq(auditTrail, Len(auditTrail) - AuditKeep + 2, Len(auditTrail))

\* the step is a call of this operation: the clock stands still and the call
\* is the one recorded last
OpStep(op) == clock' = clock /\ vcLast'.op = op

AuditOutcome(action) ==
    IF vcLast'.result = "ok" THEN AuditAppended(action) ELSE auditTrail' = auditTrail

\* C37: every successful mutating version-control operation appends exactly one
\* audit entry with the matching action (createVersion -> create_version,
\* createBranch -> create_branch, mergeBranch -> merge_branch, createTag ->
\* create_tag, rollbackToVersion -> rollback, a cleanupOldVersions that deletes
\* versions -> cleanup_versions); failed operations append none, and existing
\* entries are never modified or removed except by bulk trimming of the oldest
\* entries (the trail lives in memory and starts empty in a new process).
C37_OneAuditEntryPerOperation ==
    [][/\ OpStep("createVersion") => AuditOutcome("create_version")
       /\ OpStep("createBranch") => AuditOutcome("create_branch")
       /\ OpStep("mergeBranch") => AuditOutcome("merge_branch")
       /\ OpStep("rollbackToVersion") => AuditOutcome("rollback")
       /\ OpStep("createTag") => AuditOutcome("create_tag")
       /\ OpStep("cleanupOldVersions")
            => /\ versions' # versions
                  => AuditAppended("cleanup_versions")
               /\ AuditKept
       /\ ~Restart => AuditKept]_vars

\* a cleanup has deleted a version and logged it after the entries of the
\* operations before it, and an operation that failed has left no entry
C37_Witness ==
    /\ Len(auditTrail) >= 3
    /\ auditTrail[Len(auditTrail)].action = "cleanup_versions"
    /\ auditTrail[Len(auditTrail)].deleted_count > 0
    /\ \E i \in 1..Len(auditTrail) : auditTrail[i].action = "create_version"
    /\ vcLast.result # "ok"

\* ---- both engines in one process ----

MaxBothRequests == 1
MaxBothVersions == 1

\* the playbook that is both versioned and submitted for approval
BothPlaybookId == "pb-1"
BothLifecycleInputs == {in \in LifecycleInputs : in.playbook.playbook_id = BothPlaybookId}
BothCreateInputs == {call \in CreateInputs : call.playbook.playbook_id = <<BothPlaybookId>>}

\* the calling layer holds one ApprovalGateEngine and one VersionControlEngine
\* and calls either at any time
NextBoth ==
    \/ /\ nextApprovalId <= MaxBothRequests
       /\ \E in \in BothLifecycleInputs : evaluateApprovalGates(in.playbook, in.hour)
    \/ \E id \in 1..MaxBothRequests, approver \in Users, comments \in Comments :
            approveRequest(id, approver, comments)
    \/ \E id \in 1..MaxBothRequests, approver \in Users, reason \in Reasons :
            rejectRequest(id, approver, reason)
    \/ checkExpiredApprovals
    \/ escalatePendingApprovals
    \/ \E call \in BothCreateInputs, author \in Authors :
            /\ createVersion(call.playbook, author, call.branch, TRUE)
            /\ nextVersionId' <= MaxBothVersions + 1
    \/ \E branchName \in BranchNames, fromVersionId \in 1..MaxBothVersions,
            author \in Authors :
            /\ createBranch(<<BothPlaybookId>>, branchName, fromVersionId, author, TRUE)
            /\ nextVersionId' <= MaxBothVersions + 1
    \/ \E sourceBranch \in BranchNames, targetBranch \in BranchNames, author \in Authors :
            /\ mergeBranch(<<BothPlaybookId>>, sourceBranch, targetBranch, author, TRUE)
            /\ nextVersionId' <= MaxBothVersions + 1
    \/ \E versionId \in 1..MaxBothVersions, author \in Authors :
            /\ rollbackToVersion(<<BothPlaybookId>>, versionId, author, TRUE)
            /\ nextVersionId' <= MaxBothVersions + 1
    \/ \E tagName \in TagNames, versionId \in 1..MaxBothVersions, author \in Authors :
            createTag(<<BothPlaybookId>>, tagName, versionId, author)
    \/ \E keepCount \in KeepCounts : cleanupOldVersions(<<BothPlaybookId>>, keepCount)
    \/ Tick

SpecBoth == Init /\ [][NextBoth]_vars

\* the outcome the version store, the branch pointers and the tags alone
\* dictate for a call
BranchOutcome(playbookId, branchName, fromVersionId) ==
    IF fromVersionId \notin DOMAIN versions THEN "NotFound"
    ELSE IF versions[fromVersionId].playbook_id # playbookId THEN "ValidationError"
    ELSE IF BranchKey(playbookId, branchName) \in DOMAIN branches THEN "Conflict"
    ELSE "ok"

TagOutcome(playbookId, tagName, versionId) ==
    IF versionId \notin DOMAIN versions THEN "NotFound"
    ELSE IF versions[versionId].playbook_id # playbookId THEN "ValidationError"
    ELSE IF TagKey(playbookId, tagName) \in DOMAIN tags THEN "Conflict"
    ELSE "ok"

RollbackOutcome(playbookId, versionId) ==
    IF versionId \notin DOMAIN versions THEN "NotFound"
    ELSE IF versions[versionId].playbook_id # playbookId THEN "ValidationError"
    ELSE "ok"

MergeOutcome(playbookId, sourceBranch) ==
    IF BranchKey(playbookId, sourceBranch) \in DOMAIN branches THEN "ok" ELSE "NotFound"

VersioningUnchanged == UNCHANGED <<versions, versionOrder, branches, tags, auditTrail, disk>>

ApprovalUnchanged == UNCHANGED <<approvalStore, approvalHistory, nextApprovalId>>

MaxSweepVersions == 3
MaxSweepCleanups == 2

\* the loop passes over the versions that are tagged or a branch head
RECURSIVE SkipKept(_, _)
SkipKept(playbookId, queue) ==
    IF queue = <<>> THEN <<>>
    ELSE IF isTagged(playbookId, Head(queue)) \/ isBranchHead(Head(queue))
         THEN SkipKept(playbookId, Tail(queue))
         ELSE queue

\* the loop of cleanupOldVersions from the version at the head of the queue to
\* the next `await fs.remove(versionFile)`, or past the last version to the
\* audit entry and the return
cleanupLoop(caller, playbookId, queue, deletedCount) ==
    LET rest == SkipKept(playbookId, queue) IN
    IF rest = <<>>
    THEN /\ auditTrail' = addAuditEntry(auditTrail, "cleanup_versions", playbookId,
                              UndefinedId, "system", now, deletedCount)
         /\ vcLast' = VcCall("cleanupOldVersions", "ok", NoId)
         /\ pending' = MapDelete(pending, {caller})
         /\ UNCHANGED <<versions, versionOrder>>
    ELSE /\ versions' = MapDelete(versions, {Head(rest)})
         /\ versionOrder' = OrderDelete(versionOrder, {Head(rest)})
         /\ pending' = StoreSet(pending, caller,
                          [op |-> "cleanupOldVersions", pc |-> "fs.remove",
                           playbook_id |-> playbookId, removing |-> Head(rest),
                           queue |-> Tail(rest), deleted_count |-> deletedCount])
         /\ UNCHANGED <<auditTrail, vcLast>>

\* cleanupOldVersions up to its first `await fs.remove(versionFile)`
cleanupOldVersionsCall(caller, playbookId, keepCount) ==
    /\ caller \notin DOMAIN pending
    /\ LET history == getVersionHistory(playbookId) IN
       IF Len(history) <= keepCount
       THEN /\ vcLast' = VcCall("cleanupOldVersions", "ok", NoId)
            /\ UNCHANGED <<versions, versionOrder, auditTrail, pending>>
       ELSE /\ Len(SelectSeq(auditTrail, LAMBDA e : e.action = "cleanup_versions"))
                 + Cardinality(DOMAIN pending) < MaxSweepCleanups
            /\ cleanupLoop(caller, playbookId,
                  [i \in 1..(Len(history) - keepCount) |->
                      history[keepCount + i].version_id], 0)
    /\ UNCHANGED <<branches, tags, disk, nextVersionId, microtasks, clock>>
    /\ UNCHANGED approvalVars

\* the file of the deleted version is removed and the loop goes on
fileRemoved(caller) ==
    /\ caller \in DOMAIN pending
    /\ pending[caller].op = "cleanupOldVersions"
    /\ disk' = MapDelete(disk, {pending[caller].removing})
    /\ cleanupLoop(caller, pending[caller].playbook_id, pending[caller].queue,
                   pending[caller].deleted_count + 1)
    /\ UNCHANGED <<branches, tags, nextVersionId, microtasks, clock>>
    /\ UNCHANGED approvalVars

\* versions are created and tagged while cleanups are under way
NextVCSweep ==
    \/ \E call \in CreateInputs, author \in Authors :
            /\ createVersion(call.playbook, author, call.branch, TRUE)
            /\ nextVersionId' <= MaxSweepVersions + 1
    \/ \E playbookId \in PlaybookIds, tagName \in TagNames,
            versionId \in 1..MaxSweepVersions, author \in Authors :
            createTag(playbookId, tagName, versionId, author)
    \/ \E caller \in Callers, playbookId \in PlaybookIds, keepCount \in KeepCounts :
            cleanupOldVersionsCall(caller, playbookId, keepCount)
    \/ \E caller \in Callers : fileRemoved(caller)
    \/ (clock < MaxVcClock /\ Tick)

SpecVCSweep == Init /\ [][NextVCSweep]_vars

\* C39: in every reachable state, every tag references a version that still
\* exists in the version store and belongs to the tag's playbook, after any
\* interleaving of createTag with cleanupOldVersions (whose deletions are
\* separated by awaited file removals).
C39_TagsReferToStoredVersions ==
    \A tagKey \in DOMAIN tags :
       /\ tags[tagKey].version_id \in DOMAIN versions
       /\ versions[tags[tagKey].version_id].playbook_id = tags[tagKey].playbook_id

\* a cleanup that has deleted one version waits for the file removal, and a
\* tag has just been put on a version it has still to pass over
C39_Witness ==
    /\ vcLast.op = "createTag"
    /\ vcLast.result = "ok"
    /\ \E caller \in DOMAIN pending, tagKey \in DOMAIN tags :
          /\ pending[caller].op = "cleanupOldVersions"
          /\ pending[caller].removing \notin DOMAIN versions
          /\ \E i \in DOMAIN pending[caller].queue :
                pending[caller].queue[i] = tags[tagKey].version_id

====
